---------------------------- MODULE Spec2Model ----------------------------
(***************************************************************************)
(* A model of the CoNLL-U validator src/validate.py.                       *)
(*                                                                         *)
(* Text is modelled at the granularity the code inspects it.  The ID and   *)
(* HEAD columns, the heads of the DEPS column and the entries of the FEATS *)
(* column are sequences of one-character strings, so that the regular      *)
(* expressions, the string comparisons and int() and float() of the code   *)
(* are computed, not assumed.  The other columns are atoms taken from      *)
(* small sets of sample values.  A token row is a record holding its       *)
(* number of columns `n` and the value of every modelled column; a column  *)
(* whose index is >= n is absent and reading it raises IndexError, exactly *)
(* as cols[i] does in the code.                                            *)
(*                                                                         *)
(* Input restrictions of the model: every line is NFC-normalised, no       *)
(* column is empty or holds white space, lines end with LF, the run is     *)
(* started with --no-tree-text and the language is "ud".  Each             *)
(* specification fixes the levels of its runs.                             *)
(***************************************************************************)
EXTENDS Integers, Sequences, FiniteSets, TLC

VARIABLES
  args,           \* the parsed command line: level, quiet, max_err, single_root, input
  pc,             \* "read" (validating), "summary" (after the try block), "exit"
  fidx,           \* position in args.input of the stream being read (curr_fname)
  curr_line,      \* global curr_line
  sentence_line,  \* global sentence_line
  sentence_id,    \* global sentence_id ("" models None)
  comments,       \* trees(): comment lines of the current sentence
  lines,          \* trees(): token rows of the current sentence
  tree_counter,   \* global tree_counter
  error_counter,  \* global error_counter, a Counter: category -> count
  known_sent_ids, \* the set passed to every validate() call
  stderr,         \* what warn() printed, in order
  log,            \* every warn() call of the run, in order (printed or not)
  yielded,        \* the blocks trees() yielded for the current stream, in order
  consumed,       \* the lines read from the current stream, in order
  cols_calls,     \* line numbers at which validate_cols was invoked (current stream)
  exc,            \* the exception that escaped validate(), "" if none
  nread,          \* lines read in the whole run
  exit_status,    \* -1 while running, then the argument of sys.exit
  line_of_first_empty_node,       \* global of that name (0 models None)
  line_of_first_enhanced_orphan,  \* global of that name (0 models None)
  validated,      \* every block handed to the body of validate() in the run, in order
  probe           \* input and output of the sentence-level functions checked alone

vars == << args, pc, fidx, curr_line, sentence_line, sentence_id, comments, lines,
           tree_counter, error_counter, known_sent_ids, stderr, log, yielded,
           consumed, cols_calls, exc, nread, exit_status, line_of_first_empty_node,
           line_of_first_enhanced_orphan, validated, probe >>

----------------------------------------------------------------------------
(* Bounds of the model. *)

MaxLines == 3
MaxStreams == 2
MaxRows == 4
MaxDeps == 3
MaxDepRows == 2
MaxPlainLines == 5
MaxTreeRows == 4

----------------------------------------------------------------------------
(* Column indices, src/validate.py:32-33. *)

COLCOUNT == 10
ID == 0
LEMMA_COL == 2
UPOS == 3
FEATS == 5
HEAD == 6
DEPREL == 7
DEPS == 8
MISC == 9

----------------------------------------------------------------------------
(* Strings as sequences of characters. *)

DigitVal == ("0" :> 0) @@ ("1" :> 1) @@ ("2" :> 2) @@ ("3" :> 3) @@ ("4" :> 4) @@
            ("5" :> 5) @@ ("6" :> 6) @@ ("7" :> 7) @@ ("8" :> 8) @@ ("9" :> 9)

IsDigit(c) == c \in DOMAIN DigitVal

AllDigits(s) == \A i \in 1..Len(s) : IsDigit(s[i])

\* the pattern [1-9][0-9]* anchored at both ends
PositiveDecimal(s) == Len(s) >= 1 /\ s[1] # "0" /\ AllDigits(s)

\* the pattern [0-9]+ anchored at both ends
DigitRun(s) == Len(s) >= 1 /\ AllDigits(s)

\* str.find: the first position of c in s, 0 if there is none
IndexOf(s, c) ==
  IF \E i \in 1..Len(s) : s[i] = c
  THEN CHOOSE i \in 1..Len(s) : s[i] = c /\ \A j \in 1..(i - 1) : s[j] # c
  ELSE 0

Before(s, p) == SubSeq(s, 1, p - 1)
After(s, p) == SubSeq(s, p + 1, Len(s))

RECURSIVE NatOf(_)
NatOf(s) == IF s = << >> THEN 0
            ELSE 10 * NatOf(SubSeq(s, 1, Len(s) - 1)) + DigitVal[s[Len(s)]]

\* int(s) succeeds on an optional minus sign followed by digits
CanInt(s) == \/ DigitRun(s)
             \/ Len(s) >= 2 /\ s[1] = "-" /\ DigitRun(Tail(s))

int(s) == IF s[1] = "-" THEN 0 - NatOf(Tail(s)) ELSE NatOf(s)

RECURSIVE str(_)
str(k) == IF k < 10 THEN << CHOOSE c \in DOMAIN DigitVal : DigitVal[c] = k >>
          ELSE str(k \div 10) \o str(k % 10)

\* ",".join(str(x) for x in xs)
RECURSIVE JoinComma(_)
JoinComma(xs) == IF xs = << >> THEN << >>
                 ELSE IF Len(xs) = 1 THEN str(xs[1])
                 ELSE str(xs[1]) \o << "," >> \o JoinComma(Tail(xs))

\* float(s) succeeds on digits with an optional fraction; the value is the
\* rational num / 10^exp
CanFloat(s) ==
  LET p == IndexOf(s, ".")
  IN IF p = 0 THEN CanInt(s)
     ELSE /\ AllDigits(Before(s, p)) /\ AllDigits(After(s, p))
          /\ Len(s) >= 2

float(s) ==
  LET p == IndexOf(s, ".")
  IN IF p = 0 THEN [num |-> int(s), exp |-> 0]
     ELSE [num |-> NatOf(Before(s, p) \o After(s, p)), exp |-> Len(After(s, p))]

RECURSIVE Pow10(_)
Pow10(k) == IF k = 0 THEN 1 ELSE 10 * Pow10(k - 1)

FloatLess(x, y) == x.num * Pow10(y.exp) < y.num * Pow10(x.exp)
FloatEq(x, y) == x.num * Pow10(y.exp) = y.num * Pow10(x.exp)

----------------------------------------------------------------------------
(* Support functions, src/validate.py:131-159. *)

is_word(cols) == PositiveDecimal(cols.id)

is_multiword_token(cols) ==
  LET p == IndexOf(cols.id, "-")
  IN p > 0 /\ PositiveDecimal(Before(cols.id, p)) /\ PositiveDecimal(After(cols.id, p))

is_empty_node(cols) ==
  LET p == IndexOf(cols.id, ".")
  IN p > 0 /\ DigitRun(Before(cols.id, p)) /\ PositiveDecimal(After(cols.id, p))

\* interval_re, ^([0-9]+)-([0-9]+)$
interval_match(s) ==
  LET p == IndexOf(s, "-")
  IN p > 0 /\ DigitRun(Before(s, p)) /\ DigitRun(After(s, p))

interval_beg(s) == NatOf(Before(s, IndexOf(s, "-")))
interval_end(s) == NatOf(After(s, IndexOf(s, "-")))

\* the universal part of a relation label
lspec2ud(deprel) == IF deprel = "acl:relcl" THEN "acl" ELSE deprel

----------------------------------------------------------------------------
(* Diagnostics.  A check returns the warn() calls it made, in order, and   *)
(* the exception that ended it ("" if it returned).                        *)

\* warn(msg, error_type, testlevel, testid, nodelineno=...), called from `by`
Diag(by, testclass, testlevel, testid, nodelineno) ==
  [by |-> by, testclass |-> testclass, testlevel |-> testlevel, testid |-> testid,
   lineno |-> TRUE, nodelineno |-> nodelineno]

\* warn(msg, error_type, testlevel, testid, lineno=False), called from `by`
TreeDiag(by, testclass, testlevel, testid) ==
  [by |-> by, testclass |-> testclass, testlevel |-> testlevel, testid |-> testid,
   lineno |-> FALSE, nodelineno |-> 0]

Returned(ds) == [diags |-> ds, exc |-> ""]
Raised(ds, e) == [diags |-> ds, exc |-> e]

\* F applied to the value of v; v is evaluated once, as an assignment does
Let(v, F(_)) == CHOOSE y \in {F(x) : x \in {v}} : TRUE

\* r, then s unless r raised
Then(r, s) ==
  Let(r, LAMBDA r1 :
    IF r1.exc # "" THEN r1
    ELSE Let(s, LAMBDA s1 : [diags |-> r1.diags \o s1.diags, exc |-> s1.exc]))

If(c, ds) == IF c THEN ds ELSE << >>

CountId(ds, testid) == Cardinality({i \in 1..Len(ds) : ds[i].testid = testid})

----------------------------------------------------------------------------
(* Sample values of the atomic columns, the patterns the code matches them
   against, and the tag sets loaded for language "ud". *)

\* values matching ^[A-Z]+$
UposPattern == {"NOUN", "VERB", "XYZ"}
\* values matching ^[a-z]+(:[a-z]+)?$
DeprelPattern == {"root", "dep", "acl", "acl:relcl", "conj", "nsubj", "orphan", "aux", "foo"}
\* values matching edeprel_re
EdeprelPattern == DeprelPattern \cup {"ref"}

\* tagsets[UPOS], tagsets[DEPREL], tagsets[DEPS] as __main__ loads them
UposTags == {"NOUN", "VERB", "AUX"}
DeprelTags == {"root", "dep", "acl", "conj", "nsubj", "orphan", "aux"}
DepsTags == DeprelTags \cup {"ref"}

\* the value "_" of the HEAD column
Underscore == << "_" >>

----------------------------------------------------------------------------
(* Tests applicable to a single row. *)

\* Within the input restrictions only the ID format test can fail.
validate_cols_level1(cols) ==
  Returned(If(~(is_word(cols) \/ is_empty_node(cols) \/ is_multiword_token(cols)),
              << Diag("validate_cols_level1", "Format", 1, "invalid-word-id", 0) >>))

\* deps_list: "none" when the column is absent (the function returns None),
\* "error" when it raises ValueError, "list" otherwise
deps_list_outcome(cols) ==
  IF DEPS >= cols.n THEN "none"
  ELSE IF \E i \in 1..Len(cols.deps) : Len(cols.deps[i]) # 2 THEN "error"
  ELSE "list"

validate_character_constraints(cols) ==
  LET by == "validate_character_constraints"
      d_upos == If(~(cols.upos \in UposPattern \/ (is_empty_node(cols) /\ cols.upos = "_")),
                   << Diag(by, "Morpho", 2, "invalid-upos", 0) >>)
      d_deprel == If(~(cols.deprel \in DeprelPattern
                       \/ (is_empty_node(cols) /\ cols.deprel = "_")),
                     << Diag(by, "Syntax", 2, "invalid-deprel", 0) >>)
  IN IF is_multiword_token(cols) THEN Returned(<< >>)
     ELSE IF UPOS >= cols.n THEN Returned(<< >>)
     ELSE IF DEPREL >= cols.n THEN Raised(d_upos, "IndexError in validate_character_constraints")
     ELSE IF deps_list_outcome(cols) = "error"
       THEN Returned(d_upos \o d_deprel \o << Diag(by, "Enhanced", 2, "invalid-deps", 0) >>)
     ELSE IF deps_list_outcome(cols) = "none"
       \* deps_list returned None and the code iterates over it
       THEN Raised(d_upos \o d_deprel, "TypeError in validate_character_constraints")
     ELSE Returned(d_upos \o d_deprel
                   \o If(\E i \in 1..Len(cols.deps) : cols.deps[i][2] \notin EdeprelPattern,
                         << Diag(by, "Enhanced", 2, "invalid-edeprel", 0) >>))

\* FEATS is "_" in every modelled row: the function returns at line 767.
\* the characters of the modelled FEATS values, in the order of their code
\* points
CodeOrder ==
  << ",", ".", "0", "1", "2", "3", "4", "5", "6", "7", "8", "9", "=",
     "A", "B", "C", "D", "E", "F", "G", "H", "I", "J", "K", "L", "M",
     "N", "O", "P", "Q", "R", "S", "T", "U", "V", "W", "X", "Y", "Z", "[", "]",
     "a", "b", "c", "d", "e", "f", "g", "h", "i", "j", "k", "l", "m",
     "n", "o", "p", "q", "r", "s", "t", "u", "v", "w", "x", "y", "z" >>

ord(c) == CHOOSE i \in 1..Len(CodeOrder) : CodeOrder[i] = c

IsUpper(c) == ord(c) \in ord("A")..ord("Z")
IsLower(c) == ord(c) \in ord("a")..ord("z")

\* str.lower()
lower_char(c) == IF IsUpper(c) THEN CodeOrder[ord(c) - ord("A") + ord("a")] ELSE c
lower(s) == [i \in 1..Len(s) |-> lower_char(s[i])]

\* s < t for two Python strings
RECURSIVE str_less(_, _)
str_less(s, t) ==
  IF t = << >> THEN FALSE
  ELSE IF s = << >> THEN TRUE
  ELSE IF s[1] # t[1] THEN ord(s[1]) < ord(t[1])
  ELSE str_less(Tail(s), Tail(t))

\* sorted(l) for a list of strings
RECURSIVE sorted_strings(_)
sorted_strings(l) ==
  IF l = << >> THEN << >>
  ELSE LET m == CHOOSE i \in 1..Len(l) :
                  /\ \A j \in 1..Len(l) : ~str_less(l[j], l[i])
                  /\ \A j \in 1..(i - 1) : l[j] # l[i]
       IN << l[m] >> \o sorted_strings([j \in 1..(Len(l) - 1) |-> IF j < m THEN l[j] ELSE l[j + 1]])

\* [f.lower() for f in feat_list]
lowered(l) == [i \in 1..Len(l) |-> lower(l[i])]

\* str.split(sep)
RECURSIVE split(_, _)
split(s, sep) ==
  IF IndexOf(s, sep) = 0 THEN << s >>
  ELSE << Before(s, IndexOf(s, sep)) >> \o split(After(s, IndexOf(s, sep)), sep)

\* [A-Z0-9][A-Z0-9a-z]* anchored at both ends
ValShape(s) ==
  /\ Len(s) >= 1 /\ (IsUpper(s[1]) \/ IsDigit(s[1]))
  /\ \A i \in 2..Len(s) : IsUpper(s[i]) \/ IsDigit(s[i]) \/ IsLower(s[i])

\* [A-Z0-9][A-Z0-9a-z]*(?:\[[a-z0-9]+\])? anchored at both ends
AttrShape(s) ==
  LET p == IndexOf(s, "[")
  IN IF p = 0 THEN ValShape(s)
     ELSE /\ ValShape(Before(s, p))
          /\ Len(s) >= p + 2 /\ s[Len(s)] = "]"
          /\ \A i \in (p + 1)..(Len(s) - 1) : IsLower(s[i]) \/ IsDigit(s[i])

\* attr_val_re.match(f)
attr_val_match(f) ==
  LET p == IndexOf(f, "=")
  IN /\ p > 0
     /\ AttrShape(Before(f, p))
     /\ \A i \in 1..Len(split(After(f, p), ",")) : ValShape(split(After(f, p), ",")[i])

\* match.group(1) and match.group(2).split(",")
attr_of(f) == Before(f, IndexOf(f, "="))
values_of(f) == split(After(f, IndexOf(f, "=")), ",")

\* the approved feature-value pairs of the modelled language
FeatValTags ==
  { << "C", "a", "s", "e", "=", "N", "o", "m" >>,
    << "N", "u", "m", "b", "e", "r", "=", "S", "i", "n", "g" >>,
    << "N", "u", "m", "b", "e", "r", "=", "P", "l", "u", "r" >> }

FeatDiag(testlevel, testid) == Diag("validate_features", "Morpho", testlevel, testid, 0)

\* the loop over the values of one feature
RECURSIVE feature_value_diags(_, _, _)
feature_value_diags(attr, values, a) ==
  IF values = << >> THEN << >>
  ELSE If(~(IsUpper(values[1][1]) \/ IsDigit(values[1][1])),
          << FeatDiag(2, "invalid-feature-value") >>)
       \o If(a.level > 3 /\ (attr \o << "=" >> \o values[1]) \notin FeatValTags,
             << FeatDiag(4, "unknown-feature-value") >>)
       \o feature_value_diags(attr, Tail(values), a)

\* the body of the loop over the features for one feature
feature_diags(f, a) ==
  IF ~attr_val_match(f) THEN << FeatDiag(2, "invalid-feature") >>
  ELSE If(Len(values_of(f)) # Cardinality({values_of(f)[i] : i \in 1..Len(values_of(f))}),
          << FeatDiag(2, "repeated-feature-value") >>)
       \o If(lowered(values_of(f)) # sorted_strings(lowered(values_of(f))),
             << FeatDiag(2, "unsorted-feature-values") >>)
       \o feature_value_diags(attr_of(f), values_of(f), a)

RECURSIVE features_loop(_, _)
features_loop(feat_list, a) ==
  IF feat_list = << >> THEN << >>
  ELSE feature_diags(feat_list[1], a) \o features_loop(Tail(feat_list), a)

\* attr_set when the loop has ended
attr_set(feat_list) ==
  {IF attr_val_match(feat_list[i]) THEN attr_of(feat_list[i]) ELSE feat_list[i] :
     i \in 1..Len(feat_list)}

\* cols.feats is feats.split("|"), and << >> when the column holds "_"
validate_features(cols, a) ==
  IF FEATS >= cols.n THEN Returned(<< >>)
  ELSE IF cols.feats = << >> THEN Returned(<< >>)
  ELSE Returned(
         If(lowered(cols.feats) # sorted_strings(lowered(cols.feats)),
            << FeatDiag(2, "unsorted-features") >>)
         \o features_loop(cols.feats, a)
         \o If(Cardinality(attr_set(cols.feats)) # Len(cols.feats),
               << FeatDiag(2, "repeated-feature") >>))

validate_upos(cols) ==
  IF UPOS >= cols.n THEN Returned(<< >>)
  ELSE IF is_empty_node(cols) /\ cols.upos = "_" THEN Returned(<< >>)
  ELSE Returned(If(cols.upos \notin UposTags,
                   << Diag("validate_upos", "Morpho", 2, "unknown-upos", 0) >>))

RECURSIVE edeprel_diags(_, _, _)
edeprel_diags(items, a, testlevel) ==
  IF items = << >> THEN << >>
  ELSE LET hd == items[1]
           deprel == IF a.level < 4 THEN lspec2ud(hd[2]) ELSE hd[2]
           d == IF Len(hd) # 2
                THEN << Diag("validate_deprels", "Enhanced", testlevel, "invalid-head-deprel", 0) >>
                ELSE If(deprel \notin DepsTags,
                        << Diag("validate_deprels", "Enhanced", testlevel, "unknown-edeprel", 0) >>)
       IN d \o edeprel_diags(Tail(items), a, testlevel)

\* a variant that always reports at the level of the language-specific test
deprel_testlevel_lspec(a) == 4

\* testlevel = 4; if args.level < 4: testlevel = 2
deprel_testlevel(a) == IF a.level < 4 THEN 2 ELSE 4

validate_deprels(cols, a) ==
  LET testlevel == deprel_testlevel(a)
      deprel == IF a.level < 4 THEN lspec2ud(cols.deprel) ELSE cols.deprel
      d_deprel == If(deprel \notin DeprelTags,
                     << Diag("validate_deprels", "Syntax", testlevel, "unknown-deprel", 0) >>)
  IN IF DEPREL >= cols.n THEN Returned(<< >>)
     ELSE IF DEPS >= cols.n THEN Returned(d_deprel)
     ELSE Returned(d_deprel \o edeprel_diags(cols.deps, a, testlevel))

\* whether column c of a row holds something else than "_"
ColumnFilled(cols, c) ==
  CASE c = LEMMA_COL -> cols.lemma # "_"
    [] c = UPOS -> cols.upos # "_"
    [] c = FEATS -> cols.feats # << >>
    [] c = HEAD -> cols.head # Underscore
    [] c = DEPREL -> cols.deprel # "_"
    [] c = DEPS -> cols.deps # << >>
    [] OTHER -> FALSE

RECURSIVE nonempty_diags(_, _, _)
nonempty_diags(cols, columns, by) ==
  IF columns = << >> THEN Returned(<< >>)
  ELSE IF columns[1] >= cols.n THEN Raised(<< >>, "IndexError in " \o by)
  ELSE Then(Returned(If(ColumnFilled(cols, columns[1]),
                        << Diag(by, "Format", 2, "mwt-nonempty-field", 0) >>)),
            nonempty_diags(cols, Tail(columns), by))

\* for col_idx in range(LEMMA, MISC), without a length check
validate_token_empty_vals(cols) ==
  nonempty_diags(cols, [i \in 1..(MISC - LEMMA_COL) |-> LEMMA_COL + i - 1],
                 "validate_token_empty_vals")

\* for col_idx in (HEAD, DEPREL), without a length check
validate_empty_node_empty_vals(cols) ==
  nonempty_diags(cols, << HEAD, DEPREL >>, "validate_empty_node_empty_vals")

\* FORM and LEMMA hold no white space in the modelled rows.
validate_whitespace(cols) == Returned(<< >>)

validate_cols(cols, a) ==
  LET first == IF is_word(cols) \/ is_empty_node(cols)
               THEN Then(Then(validate_character_constraints(cols), validate_features(cols, a)),
                         validate_upos(cols))
               ELSE IF is_multiword_token(cols) THEN validate_token_empty_vals(cols)
               ELSE Returned(<< >>)
      second == IF is_word(cols) THEN validate_deprels(cols, a)
                ELSE IF is_empty_node(cols) THEN validate_empty_node_empty_vals(cols)
                ELSE Returned(<< >>)
      third == IF a.level > 3 THEN validate_whitespace(cols) ELSE Returned(<< >>)
  IN Then(Then(first, second), third)

----------------------------------------------------------------------------
(* Level 1 tests applicable to the whole sentence block. *)

Last(s) == s[Len(s)]

\* the word ids of a block, in row order
WordIds(tree) ==
  LET W == SelectSeq(tree, is_word) IN [i \in 1..Len(W) |-> int(W[i].id)]

\* one iteration of the loop of validate_ID_sequence over the rows
id_sequence_step(acc, cols) ==
  LET by == "validate_ID_sequence"
      next_empty == IF ~is_empty_node(cols) THEN 1 ELSE acc.next_empty_id
      t_id == int(cols.id)
      covered == /\ acc.tokens # << >>
                 /\ Last(acc.tokens)[1] <= t_id /\ Last(acc.tokens)[2] >= t_id
      beg == interval_beg(cols.id)
      end == interval_end(cols.id)
      p == IndexOf(cols.id, ".")
      word_id == NatOf(Before(cols.id, p))
      empty_id == NatOf(After(cols.id, p))
  IN IF is_word(cols)
       THEN [acc EXCEPT !.next_empty_id = next_empty,
                        !.current_word_id = t_id,
                        !.words = Append(@, t_id),
                        !.tokens = IF covered THEN @ ELSE Append(@, << t_id, t_id >>)]
     ELSE IF is_multiword_token(cols)
       THEN IF ~interval_match(cols.id)
              THEN [acc EXCEPT !.next_empty_id = next_empty,
                      !.diags = Append(@, Diag(by, "Format", 1, "invalid-word-interval", 0))]
            ELSE IF ~(\/ acc.words = << >> /\ beg >= 1
                      \/ acc.words # << >> /\ beg >= Last(acc.words) + 1)
              THEN [acc EXCEPT !.next_empty_id = next_empty,
                      !.diags = Append(@, Diag(by, "Format", 1, "misplaced-word-interval", 0))]
            ELSE [acc EXCEPT !.next_empty_id = next_empty,
                             !.tokens = Append(@, << beg, end >>)]
     ELSE IF is_empty_node(cols)
       THEN [acc EXCEPT !.next_empty_id = next_empty + 1,
               !.diags = @ \o If(word_id # acc.current_word_id \/ empty_id # next_empty,
                                 << Diag(by, "Format", 1, "misplaced-empty-node", 0) >>)]
     ELSE [acc EXCEPT !.next_empty_id = next_empty]

RECURSIVE id_sequence_loop(_, _)
id_sequence_loop(acc, tree) ==
  IF tree = << >> THEN acc
  ELSE Let(id_sequence_step(acc, tree[1]), LAMBDA acc1 : id_sequence_loop(acc1, Tail(tree)))

\* a variant that expects the words as they were read
expstrseq_as_read(words) == JoinComma(words)

\* str(x) for x in range(1, len(words) + 1), joined
expstrseq(words) == JoinComma([i \in 1..Len(words) |-> i])

\* a variant without the test of the range of the interval
interval_reversed_only(t, nwords) ==
  If(t[2] < t[1], << Diag("validate_ID_sequence", "Format", 1, "reversed-word-interval", 0) >>)

\* the sanity test of one interval of `tokens`
interval_diags(t, nwords) ==
  IF t[2] < t[1]
    THEN << Diag("validate_ID_sequence", "Format", 1, "reversed-word-interval", 0) >>
  ELSE IF t[1] < 1 \/ t[2] > nwords
    THEN << Diag("validate_ID_sequence", "Format", 1, "word-interval-out", 0) >>
  ELSE << >>

RECURSIVE intervals_diags(_, _)
intervals_diags(tokens, nwords) ==
  IF tokens = << >> THEN << >>
  ELSE interval_diags(tokens[1], nwords) \o intervals_diags(Tail(tokens), nwords)

validate_ID_sequence(tree) ==
  Let(id_sequence_loop([words |-> << >>, tokens |-> << >>, current_word_id |-> 0,
                        next_empty_id |-> 1, diags |-> << >>], tree), LAMBDA acc :
    Returned(acc.diags
             \o If(JoinComma(acc.words) # expstrseq(acc.words),
                   << TreeDiag("validate_ID_sequence", "Format", 1, "word-id-sequence") >>)
             \o intervals_diags(acc.tokens, Len(acc.words))))

\* one iteration of the loop of validate_token_ranges
token_ranges_step(acc, cols) ==
  LET by == "validate_token_ranges"
      start == interval_beg(cols.id)
      end == interval_end(cols.id)
      range == start..end
  IN IF ~is_multiword_token(cols) THEN acc
     ELSE IF ~interval_match(cols.id)
       THEN [acc EXCEPT !.diags = Append(@, Diag(by, "Format", 1, "invalid-word-interval", 0))]
     ELSE IF ~(start < end)
       THEN [acc EXCEPT !.diags = Append(@, Diag(by, "Format", 1, "reversed-word-interval", 0))]
     ELSE [covered |-> acc.covered \cup range,
           diags |-> acc.diags
                     \o If(acc.covered \cap range # {},
                           << Diag(by, "Format", 1, "overlapping-word-intervals", 0) >>)]

RECURSIVE token_ranges_loop(_, _)
token_ranges_loop(acc, tree) ==
  IF tree = << >> THEN acc
  ELSE Let(token_ranges_step(acc, tree[1]), LAMBDA acc1 : token_ranges_loop(acc1, Tail(tree)))

validate_token_ranges(tree) ==
  Returned(token_ranges_loop([covered |-> {}, diags |-> << >>], tree).diags)

----------------------------------------------------------------------------
(* Level 2 tests applicable to the whole sentence block. *)

\* sid.count("/") on the sample sentence ids
SlashCount(sid) == IF sid = "a/b" THEN 1 ELSE 0

\* the comments that match sentid_re
sentid_matched(cmts) == SelectSeq(cmts, LAMBDA c : c.sid # "")

\* a variant that remembers the latest sentence id only
known_latest(known_ids, sid) == {sid}

\* known_ids.add(sid)
known_add(known_ids, sid) == known_ids \cup {sid}

validate_sent_id(cmts, known_ids, lcode) ==
  LET by == "validate_sent_id"
      matched == sentid_matched(cmts)
      spurious == SelectSeq(cmts, LAMBDA c : c.sid = "" /\ c.prefix)
      d_invalid == [i \in 1..Len(spurious) |-> Diag(by, "Metadata", 2, "invalid-sent-id", 0)]
      sid == matched[1].sid
  IN IF matched = << >>
       THEN [diags |-> d_invalid \o << Diag(by, "Metadata", 2, "missing-sent-id", 0) >>,
             known |-> known_ids]
     ELSE IF Len(matched) > 1
       THEN [diags |-> d_invalid \o << Diag(by, "Metadata", 2, "multiple-sent-id", 0) >>,
             known |-> known_ids]
     ELSE [diags |-> d_invalid
                     \o If(sid \in known_ids,
                           << Diag(by, "Metadata", 2, "non-unique-sent-id", 0) >>)
                     \o If(SlashCount(sid) > 1
                           \/ (SlashCount(sid) = 1 /\ lcode # "ud" /\ lcode # "shopen"),
                           << Diag(by, "Metadata", 2, "slash-in-sent-id", 0) >>),
           known |-> known_add(known_ids, sid)]

\* "0" as the value of a head
Zero == << "0" >>

RECURSIVE enhanced_root_diags(_)
enhanced_root_diags(deps) ==
  IF deps = << >> THEN << >>
  ELSE If(deps[1][1] = Zero /\ deps[1][2] # "root",
          << Diag("validate_root", "Enhanced", 2, "enhanced-0-is-not-root", 0) >>)
       \o If(deps[1][1] # Zero /\ deps[1][2] = "root",
             << Diag("validate_root", "Enhanced", 2, "enhanced-root-is-not-0", 0) >>)
       \o enhanced_root_diags(Tail(deps))

\* the body of the loop of validate_root for one row
validate_root_row(cols) ==
  LET by == "validate_root"
      basic == If(cols.head = Zero /\ cols.deprel # "root",
                  << Diag(by, "Syntax", 2, "0-is-not-root", 0) >>)
               \o If(cols.head # Zero /\ cols.deprel = "root",
                     << Diag(by, "Syntax", 2, "root-is-not-0", 0) >>)
      enhanced == IF DEPS >= cols.n THEN << >>
                  ELSE IF deps_list_outcome(cols) = "error"
                    THEN << Diag(by, "Format", 2, "invalid-deps", 0) >>
                  ELSE enhanced_root_diags(cols.deps)
  IN IF is_word(cols)
       THEN IF HEAD >= cols.n THEN Returned(<< >>)
            ELSE IF DEPREL >= cols.n THEN Raised(<< >>, "IndexError in validate_root")
            ELSE Returned(basic \o enhanced)
     ELSE IF is_empty_node(cols) THEN Returned(enhanced)
     ELSE Returned(<< >>)

\* a variant that stops after the first row
validate_root_first_row(tree) ==
  IF tree = << >> THEN Returned(<< >>) ELSE validate_root_row(tree[1])

RECURSIVE validate_root(_)
validate_root(tree) ==
  IF tree = << >> THEN Returned(<< >>)
  ELSE Then(validate_root_row(tree[1]), validate_root(Tail(tree)))

subset_to_words_and_empty_nodes(tree) ==
  SelectSeq(tree, LAMBDA cols : is_word(cols) \/ is_empty_node(cols))

basic_head_match(s) == s = Zero \/ PositiveDecimal(s)

enhanced_head_match(s) ==
  LET p == IndexOf(s, ".")
  IN IF p = 0 THEN basic_head_match(s)
     ELSE basic_head_match(Before(s, p)) /\ PositiveDecimal(After(s, p))

RECURSIVE ehead_diags(_, _)
ehead_diags(deps, ids) ==
  IF deps = << >> THEN << >>
  ELSE If(~enhanced_head_match(deps[1][1]),
          << Diag("validate_ID_references", "Format", 2, "invalid-ehead", 0) >>)
       \o If(~(deps[1][1] \in ids \/ deps[1][1] = Zero),
             << Diag("validate_ID_references", "Enhanced", 2, "unknown-ehead", 0) >>)
       \o ehead_diags(Tail(deps), ids)

\* the loop of validate_ID_references from row i on; it returns at a short row
RECURSIVE id_references_loop(_, _)
id_references_loop(word_tree, ids) ==
  IF word_tree = << >> THEN << >>
  ELSE LET cols == word_tree[1]
           by == "validate_ID_references"
           basic == IF is_empty_node(cols) THEN << >>
                    ELSE If(~basic_head_match(cols.head),
                            << Diag(by, "Format", 2, "invalid-head", 0) >>)
                         \o If(~(cols.head \in ids \/ cols.head = Zero),
                               << Diag(by, "Syntax", 2, "unknown-head", 0) >>)
       IN IF HEAD >= cols.n THEN << >>
          ELSE IF DEPS >= cols.n THEN basic
          ELSE IF deps_list_outcome(cols) = "error"
            THEN basic \o << Diag(by, "Format", 2, "invalid-deps", 0) >>
                 \o id_references_loop(Tail(word_tree), ids)
          ELSE basic \o ehead_diags(cols.deps, ids)
               \o id_references_loop(Tail(word_tree), ids)

validate_ID_references(tree) ==
  LET word_tree == subset_to_words_and_empty_nodes(tree)
      ids == {word_tree[i].id : i \in 1..Len(word_tree)}
  IN Returned(id_references_loop(word_tree, ids))

\* Python's order of the sample relation labels (code point by code point)
RelRank == ("acl" :> 1) @@ ("acl:relcl" :> 2) @@ ("conj" :> 3) @@ ("dep" :> 4) @@
           ("foo" :> 5) @@ ("nsubj" :> 6) @@ ("ref" :> 7) @@ ("root" :> 8)

StrLess(x, y) == RelRank[x] < RelRank[y]

\* heads != sorted(heads), heads being floats
heads_unsorted(heads) ==
  \E i \in 1..(Len(heads) - 1) : FloatLess(heads[i + 1], heads[i])

\* the loop over (h, d) of validate_deps that remembers lasth and lastd
RECURSIVE deps_pair_diags(_, _, _)
deps_pair_diags(deps, last, node_line) ==
  IF deps = << >> THEN << >>
  ELSE LET h == deps[1][1]
           d == deps[1][2]
           here == IF last # << >> /\ h = last[1]
                   THEN IF StrLess(d, last[2])
                          THEN << Diag("validate_deps", "Format", 2, "unsorted-deps-2", node_line) >>
                        ELSE If(d = last[2],
                                << Diag("validate_deps", "Format", 2, "repeated-deps", node_line) >>)
                   ELSE << >>
       IN here \o deps_pair_diags(Tail(deps), deps[1], node_line)

\* the tests of validate_deps on one row whose DEPS parsed
deps_row_diags(cols, node_line) ==
  LET heads == [i \in 1..Len(cols.deps) |-> float(cols.deps[i][1])]
  IN (IF heads_unsorted(heads)
      THEN << Diag("validate_deps", "Format", 2, "unsorted-deps", node_line) >>
      ELSE deps_pair_diags(cols.deps, << >>, node_line))
     \o If(\E i \in 1..Len(heads) : FloatEq(float(cols.id), heads[i]),
           << Diag("validate_deps", "Enhanced", 2, "deps-self-loop", node_line) >>)

RECURSIVE validate_deps_loop(_, _)
validate_deps_loop(tree, node_line) ==
  IF tree = << >> THEN << >>
  ELSE LET cols == tree[1]
           nl == node_line + 1
       IN IF ~(is_word(cols) \/ is_empty_node(cols)) THEN validate_deps_loop(Tail(tree), nl)
          ELSE IF DEPS >= cols.n THEN validate_deps_loop(Tail(tree), nl)
          ELSE IF \/ deps_list_outcome(cols) = "error"
                  \/ \E i \in 1..Len(cols.deps) : ~CanFloat(cols.deps[i][1])
            \* ValueError: the row is reported and the function returns
            THEN << Diag("validate_deps", "Format", 2, "invalid-deps", nl) >>
          ELSE deps_row_diags(cols, nl) \o validate_deps_loop(Tail(tree), nl)

validate_deps(tree, sline) == Returned(validate_deps_loop(tree, sline - 1))

MiscKeys == {"SpaceAfter", "Translit", "LTranslit", "Gloss", "LId", "LDeriv"}

\* the keys of MiscKeys that occur more than once in a MISC value
misc_duplicates(misc) ==
  {k \in MiscKeys : Cardinality({i \in 1..Len(misc) : misc[i][1] = k}) > 1}

RECURSIVE validate_misc_loop(_, _)
validate_misc_loop(tree, node_line) ==
  IF tree = << >> THEN Returned(<< >>)
  ELSE LET cols == tree[1]
           nl == node_line + 1
           dup == misc_duplicates(cols.misc)
       IN IF ~(is_word(cols) \/ is_empty_node(cols)) THEN validate_misc_loop(Tail(tree), nl)
          ELSE IF MISC >= cols.n THEN validate_misc_loop(Tail(tree), nl)
          ELSE IF cols.misc = << >> THEN validate_misc_loop(Tail(tree), nl)
          \* for k, v in misc: an item without "=" cannot be unpacked
          ELSE IF \E i \in 1..Len(cols.misc) : Len(cols.misc[i]) # 2
            THEN Raised(<< >>, "ValueError in validate_misc")
          ELSE Then(Returned([i \in 1..Cardinality(dup) |->
                                Diag("validate_misc", "Format", 2, "repeated-misc", nl)]),
                    validate_misc_loop(Tail(tree), nl))

validate_misc(tree, sline) == validate_misc_loop(tree, sline - 1)

----------------------------------------------------------------------------
(* The tree and the enhanced graph of a sentence block. *)

\* sorted(c) for a set of integers
RECURSIVE sorted(_)
sorted(S) == IF S = {} THEN << >>
             ELSE LET m == CHOOSE x \in S : \A y \in S : x <= y
                  IN << m >> \o sorted(S \ {m})

\* get_projection(node_id, tree) as the interpreter runs it: `depth` is the
\* room left on the call stack; children is tree["children"] (index 0 first)
RECURSIVE get_projection(_, _, _)
RECURSIVE projection_loop(_, _, _, _)
get_projection(node_id, children, depth) ==
  IF depth = 0 THEN [set |-> {}, exc |-> "RecursionError in get_projection"]
  ELSE IF node_id \notin DOMAIN children
    THEN [set |-> {}, exc |-> "IndexError in get_projection"]
  ELSE projection_loop(sorted(children[node_id]), {node_id}, children, depth)

projection_loop(kids, projection, children, depth) ==
  IF kids = << >> THEN [set |-> projection, exc |-> ""]
  ELSE IF kids[1] \in projection
    THEN projection_loop(Tail(kids), projection, children, depth)
  ELSE Let(get_projection(kids[1], children, depth - 1), LAMBDA sub :
         IF sub.exc # "" THEN sub
         ELSE Let(projection \cup sub.set, LAMBDA p1 :
                projection_loop(Tail(kids), p1, children, depth)))

\* a variant that files every word under the virtual root
list_index_root(head, len) == 0

\* children[head] of a Python list of length len: the position read, or -1
\* when the index is out of range
ListIndex(head, len) ==
  IF head >= 0 /\ head < len THEN head
  ELSE IF head < 0 /\ head >= 0 - len THEN len + head
  ELSE 0 - 1

NoTree == [nodes |-> << >>, children |-> << >>, linenos |-> << >>, none |-> TRUE]

\* ["0", "_", "_", "_", "_", "_", "_", "_", "_", "_"]
RootCols == [id |-> Zero, n |-> COLCOUNT, lemma |-> "_", upos |-> "_", feats |-> << >>, head |-> Underscore,
             deprel |-> "_", deps |-> << >>, misc |-> << >>]

\* the loop of build_tree over the rows; acc holds nodes, linenos and children
\* (children as a function on 0..len(sentence)), the diagnostics and the way
\* the loop ended: "" (exhausted), "none" (return None) or an exception
RECURSIVE build_tree_loop(_, _, _)
build_tree_loop(acc, sentence, node_line) ==
  IF sentence = << >> THEN acc
  ELSE LET cols == sentence[1]
           nl == node_line + 1
           id_ == int(cols.id)
           head == int(cols.head)
           at == ListIndex(head, Cardinality(DOMAIN acc.children))
       IN IF ~is_word(cols) THEN build_tree_loop(acc, Tail(sentence), nl)
          ELSE IF MISC >= cols.n THEN [acc EXCEPT !.ended = "none"]
          ELSE IF ~CanInt(cols.id) THEN [acc EXCEPT !.ended = "none"]
          ELSE IF ~CanInt(cols.head) THEN [acc EXCEPT !.ended = "none"]
          ELSE IF head = id_
            THEN [acc EXCEPT !.ended = "none",
                    !.diags = Append(@, Diag("build_tree", "Syntax", 2, "head-self-loop", nl))]
          ELSE IF at < 0
            THEN [acc EXCEPT !.ended = "IndexError in build_tree"]
          ELSE Let([acc EXCEPT !.nodes = Append(@, cols), !.linenos = Append(@, nl),
                               !.children[at] = @ \cup {id_}],
                   LAMBDA acc1 : build_tree_loop(acc1, Tail(sentence), nl))

\* the word indices build_tree tests for reachability: range(1, len(nodes) - 1)
tested_for_reachability(nodes) == 1..(Len(nodes) - 2)

\* a variant that ignores the root policy
too_many_roots_always(children, a) == Cardinality(children[0]) > 1

\* if len(children[0]) > 1 and args.single_root
too_many_roots(children, a) == Cardinality(children[0]) > 1 /\ a.single_root

build_tree(sentence, sline, a) ==
  Let(build_tree_loop([nodes |-> << RootCols >>,
                       linenos |-> << sline >>,
                       children |-> [i \in 0..Len(sentence) |-> {}],
                       diags |-> << >>, ended |-> ""],
                      sentence, sline - 1), LAMBDA acc :
  LET tree == [nodes |-> acc.nodes, children |-> acc.children, linenos |-> acc.linenos,
               none |-> FALSE]
      proj == get_projection(0, acc.children, Len(sentence) + 2)
      unreachable == tested_for_reachability(acc.nodes) \ proj.set
  IN IF acc.ended = "none"
       THEN [diags |-> acc.diags, exc |-> "", tree |-> NoTree, listed |-> << >>]
     ELSE IF acc.ended # ""
       THEN [diags |-> acc.diags, exc |-> acc.ended, tree |-> NoTree, listed |-> << >>]
     ELSE IF too_many_roots(acc.children, a)
       THEN [diags |-> acc.diags \o << TreeDiag("build_tree", "Syntax", 2, "multiple-roots") >>,
             exc |-> "", tree |-> NoTree, listed |-> << >>]
     ELSE IF proj.exc # ""
       THEN [diags |-> acc.diags, exc |-> proj.exc, tree |-> NoTree, listed |-> << >>]
     ELSE IF unreachable # {}
       \* listed: the words the message of the diagnostic names
       THEN [diags |-> acc.diags \o << TreeDiag("build_tree", "Syntax", 2, "non-tree") >>,
             exc |-> "", tree |-> NoTree, listed |-> sorted(unreachable)]
     ELSE [diags |-> acc.diags, exc |-> "", tree |-> tree, listed |-> << >>])

\* get_graph_projection(node_id, graph); kids is the part of the children
\* set still to be iterated (a Python set: any order)
RECURSIVE get_graph_projection(_, _, _)
RECURSIVE graph_projection_loop(_, _, _, _)
get_graph_projection(node_id, graph, depth) ==
  IF depth = 0 THEN [set |-> {}, exc |-> "RecursionError in get_graph_projection"]
  ELSE graph_projection_loop(graph[node_id].children, {node_id}, graph, depth)

graph_projection_loop(kids, projection, graph, depth) ==
  IF kids = {} THEN [set |-> projection, exc |-> ""]
  ELSE LET child_id == CHOOSE k \in kids : TRUE
       IN IF child_id \in projection
            THEN graph_projection_loop(kids \ {child_id}, projection, graph, depth)
          ELSE Let(get_graph_projection(child_id, graph, depth - 1), LAMBDA sub :
                 IF sub.exc # "" THEN sub
                 ELSE Let(projection \cup sub.set, LAMBDA p1 :
                        graph_projection_loop(kids \ {child_id}, p1, graph, depth)))

NoGraph == [none |-> TRUE, nodes |-> << >>, keys |-> << >>]

\* egraph.setdefault(k, {}): a new key goes to the end of the dictionary
setdefault_key(keys, k) ==
  IF \E i \in 1..Len(keys) : keys[i] = k THEN keys ELSE Append(keys, k)

RECURSIVE setdefault_heads(_, _)
setdefault_heads(keys, deps) ==
  IF deps = << >> THEN keys
  ELSE setdefault_heads(setdefault_key(keys, deps[1][1]), Tail(deps))

\* graph.keys(): "0", then for each row its id and the heads of its DEPS
RECURSIVE egraph_keys_loop(_, _)
egraph_keys_loop(keys, sentence) ==
  IF sentence = << >> THEN keys
  ELSE IF is_multiword_token(sentence[1]) THEN egraph_keys_loop(keys, Tail(sentence))
  ELSE egraph_keys_loop(setdefault_heads(setdefault_key(keys, sentence[1].id), sentence[1].deps),
                        Tail(sentence))

egraph_keys(sentence) == egraph_keys_loop(<< Zero >>, sentence)

\* the rows build_egraph enters into the graph
egraph_rows(sentence) == SelectSeq(sentence, LAMBDA cols : ~is_multiword_token(cols))

\* the node map build_egraph has built when its loop ends: every row id, every
\* head named in a DEPS column, and "0"
egraph_nodes(sentence, sline) ==
  LET R == egraph_rows(sentence)
      lineno(i) == sline - 1 + i
      heads == UNION {{sentence[i].deps[j][1] : j \in 1..Len(sentence[i].deps)} :
                        i \in {k \in 1..Len(sentence) : ~is_multiword_token(sentence[k])}}
      nodeids == {R[i].id : i \in 1..Len(R)}
      kids(k) == {sentence[i].id : i \in {r \in 1..Len(sentence) :
                     /\ ~is_multiword_token(sentence[r])
                     /\ \E j \in 1..Len(sentence[r].deps) : sentence[r].deps[j][1] = k}}
      \* the last row that carries the id k
      row(k) == CHOOSE i \in 1..Len(sentence) :
                  /\ ~is_multiword_token(sentence[i]) /\ sentence[i].id = k
                  /\ \A j \in (i + 1)..Len(sentence) :
                       is_multiword_token(sentence[j]) \/ sentence[j].id # k
  IN [k \in nodeids \cup heads \cup {Zero} |->
        IF k \in nodeids
          THEN [has_cols |-> TRUE, cols |-> sentence[row(k)], deps |-> sentence[row(k)].deps,
                parents |-> {sentence[row(k)].deps[j][1] : j \in 1..Len(sentence[row(k)].deps)},
                children |-> kids(k), lineno |-> lineno(row(k))]
        ELSE IF k = Zero
          THEN [has_cols |-> TRUE, cols |-> RootCols, deps |-> << >>, parents |-> {},
                children |-> kids(k), lineno |-> sline]
        ELSE [has_cols |-> FALSE, children |-> kids(k)]]

\* sorted(unreachable) for a set of strings
RECURSIVE sorted_ids(_)
sorted_ids(S) ==
  IF S = {} THEN << >>
  ELSE LET m == CHOOSE x \in S : \A y \in S : ~str_less(y, x)
       IN << m >> \o sorted_ids(S \ {m})

\* a variant that takes only enhanced relations for a sign of a graph
egraph_exists_by_deps(R) == \E i \in 1..Len(R) : R[i].deps # << >>

\* egraph_exists when the loop of build_egraph ends: some row was an empty
\* node or named a head
egraph_exists(R) == \E i \in 1..Len(R) : is_empty_node(R[i]) \/ R[i].deps # << >>

\* listed: the ids the message of 'unconnected-egraph' names
build_egraph(sentence, sline) ==
  LET R == egraph_rows(sentence)
      fatal == \E i \in 1..Len(R) : MISC >= R[i].n \/ deps_list_outcome(R[i]) = "error"
      nodeids == {R[i].id : i \in 1..Len(R)}
  IN IF fatal THEN [diags |-> << >>, exc |-> "", egraph |-> NoGraph, listed |-> << >>]
     ELSE IF ~egraph_exists(R)
       THEN [diags |-> << >>, exc |-> "", egraph |-> NoGraph, listed |-> << >>]
     ELSE Let(egraph_nodes(sentence, sline), LAMBDA egraph :
          Let(get_graph_projection(Zero, egraph, Cardinality(DOMAIN egraph) + 1), LAMBDA proj :
            IF proj.exc # ""
              THEN [diags |-> << >>, exc |-> proj.exc, egraph |-> NoGraph, listed |-> << >>]
            ELSE IF nodeids \ proj.set # {}
              THEN [diags |-> << TreeDiag("build_egraph", "Enhanced", 2, "unconnected-egraph") >>,
                    exc |-> "", egraph |-> NoGraph, listed |-> sorted_ids(nodeids \ proj.set)]
            ELSE [diags |-> << >>, exc |-> "",
                  egraph |-> [none |-> FALSE, nodes |-> egraph,
                              keys |-> egraph_keys(sentence)],
                  listed |-> << >>]))

----------------------------------------------------------------------------
(* Level 3: validate_annotation on the tree build_tree returned.  tree.nodes
   and tree.linenos are Python lists: index i is position i + 1 here.  The
   UPOS and DEPREL values are atoms, so a regular expression over them is the
   set of the sample values it matches. *)

HasNode(tree, i) == ListIndex(i, Len(tree.nodes)) >= 0
Node(tree, i) == tree.nodes[ListIndex(i, Len(tree.nodes)) + 1]
LineOf(tree, i) == tree.linenos[ListIndex(i, Len(tree.linenos)) + 1]

\* warn(..., testlevel=3, nodelineno=tree["linenos"][node_id])
NodeDiag(by, testid, tree, node_id) == Diag(by, "Syntax", 3, testid, LineOf(tree, node_id))

\* set([lspec2ud(tree["nodes"][x][DEPREL]) for x in tree["children"][node_id]])
childrels(node_id, tree) ==
  {lspec2ud(Node(tree, x).deprel) : x \in tree.children[node_id]}

NominalOrVerbalUpos ==
  {"NOUN", "PROPN", "ADJ", "PRON", "DET", "NUM", "VERB", "AUX", "INTJ"}

validate_upos_vs_deprel(node_id, tree) ==
  LET by == "validate_upos_vs_deprel"
      cols == Node(tree, node_id)
      deprel == lspec2ud(cols.deprel)
      kids == childrels(node_id, tree)
      rule(cond, testid) == If(cond, << NodeDiag(by, testid, tree, node_id) >>)
  IN IF ~HasNode(tree, node_id) \/ \E x \in tree.children[node_id] : ~HasNode(tree, x)
       THEN Raised(<< >>, "IndexError in validate_upos_vs_deprel")
     ELSE Returned(
       rule(deprel = "det" /\ cols.upos \notin {"DET", "PRON"} /\ "fixed" \notin kids,
            "rel-upos-det")
       \o rule(deprel = "nummod" /\ cols.upos \notin {"NUM", "NOUN", "SYM"}, "rel-upos-nummod")
       \o rule(deprel = "advmod"
               /\ cols.upos \notin {"ADV", "ADJ", "CCONJ", "DET", "PART", "SYM"}
               /\ "fixed" \notin kids /\ "goeswith" \notin kids, "rel-upos-advmod")
       \o rule(deprel = "expl" /\ cols.upos \notin {"PRON", "DET", "PART"}, "rel-upos-expl")
       \o rule(deprel = "aux" /\ cols.upos # "AUX", "rel-upos-aux")
       \o rule(deprel = "cop" /\ cols.upos \notin {"AUX", "PRON", "DET", "SYM"}, "rel-upos-cop")
       \o rule(deprel = "compound" /\ cols.upos = "AUX", "rel-upos-compound")
       \o rule(deprel = "case" /\ cols.upos \in {"PROPN", "ADJ", "PRON", "DET", "NUM", "AUX"}
               /\ "fixed" \notin kids, "rel-upos-case")
       \o rule(deprel = "mark" /\ cols.upos \in NominalOrVerbalUpos /\ "fixed" \notin kids,
               "rel-upos-mark")
       \o rule(deprel = "cc" /\ cols.upos \in NominalOrVerbalUpos /\ "fixed" \notin kids,
               "rel-upos-cc")
       \o rule(cols.deprel = "punct" /\ cols.upos # "PUNCT", "rel-upos-punct")
       \o rule(cols.upos = "PUNCT" /\ deprel \notin {"punct", "root"}, "upos-rel-punct"))

LeftToRightRels == {"conj", "fixed", "flat", "goeswith", "appos"}

validate_left_to_right_relations(node_id, tree) ==
  LET cols == Node(tree, node_id)
  IN IF is_multiword_token(cols) THEN Returned(<< >>)
     ELSE IF DEPREL >= cols.n THEN Returned(<< >>)
     ELSE Returned(If(lspec2ud(cols.deprel) \in LeftToRightRels /\ int(cols.id) < int(cols.head),
                      << NodeDiag("validate_left_to_right_relations",
                                  "right-to-left-" \o lspec2ud(cols.deprel), tree, node_id) >>))

\* the sample relations whose universal part contains "subj"
SubjectRels == {"nsubj", "csubj"}

validate_single_subject(id, tree) ==
  LET subjects == {x \in tree.children[id] : lspec2ud(Node(tree, x).deprel) \in SubjectRels}
  IN Returned(If(Cardinality(subjects) > 2,
                 << NodeDiag("validate_single_subject", "too-many-subjects", tree, id) >>))

OrphanParentRels ==
  {"conj", "parataxis", "root", "csubj", "ccomp", "advcl", "acl", "reparandum"}

validate_orphan(node_id, tree) ==
  LET cols == Node(tree, node_id)
      pid == int(cols.head)
  IN IF lspec2ud(cols.deprel) # "orphan" THEN Returned(<< >>)
     ELSE IF ~HasNode(tree, pid) THEN Raised(<< >>, "IndexError in validate_orphan")
     ELSE Returned(If(lspec2ud(Node(tree, pid).deprel) \notin OrphanParentRels,
                      << NodeDiag("validate_orphan", "orphan-parent", tree, node_id) >>))

\* range(a, b) as a set
PyRange(a, b) == {x \in a..(b - 1) : TRUE}

\* collect_ancestors(node_id, tree, ancestors); ancestors is a list
RECURSIVE collect_ancestors(_, _, _)
collect_ancestors(node_id, tree, ancestors) ==
  IF ~HasNode(tree, node_id) THEN [list |-> ancestors, exc |-> "IndexError in collect_ancestors"]
  ELSE Let(int(Node(tree, node_id).head), LAMBDA pid :
         IF pid = 0 THEN [list |-> Append(ancestors, 0), exc |-> ""]
         ELSE IF \E k \in 1..Len(ancestors) : ancestors[k] = pid
           THEN [list |-> ancestors, exc |-> ""]
         ELSE collect_ancestors(pid, tree, Append(ancestors, pid)))

\* int(tree["nodes"][x][HEAD])
HeadIn(tree, x) == int(Node(tree, x).head)

get_caused_nonprojectivities(node_id, tree) ==
  Let(collect_ancestors(node_id, tree, << >>), LAMBDA anc :
    IF anc.exc # "" THEN [list |-> << >>, exc |-> anc.exc]
    ELSE
  Let(Len(tree.nodes) - 1, LAMBDA maxid :
  Let(HeadIn(tree, node_id), LAMBDA pid :
  Let({anc.list[k] : k \in 1..Len(anc.list)}, LAMBDA sancestors :
  Let((IF pid < node_id THEN PyRange(pid + 1, node_id) ELSE PyRange(1, node_id)) \ sancestors,
      LAMBDA leftna :
  Let((IF pid < node_id THEN PyRange(node_id + 1, maxid + 1) ELSE PyRange(node_id + 1, pid))
        \ sancestors,
      LAMBDA rightna :
    IF \E x \in leftna \cup rightna : ~HasNode(tree, x)
      THEN [list |-> << >>, exc |-> "IndexError in get_caused_nonprojectivities"]
    ELSE
  Let({x \in leftna : HeadIn(tree, x) > node_id /\ (pid < node_id \/ HeadIn(tree, x) < pid)},
      LAMBDA leftcross :
  Let({x \in rightna : HeadIn(tree, x) < node_id /\ (pid >= node_id \/ HeadIn(tree, x) > pid)},
      LAMBDA rightcross :
    [list |-> sorted(leftcross \cup rightcross), exc |-> ""]))))))))

get_gap(node_id, tree) ==
  Let(HeadIn(tree, node_id), LAMBDA pid :
  Let(IF node_id < pid THEN PyRange(node_id + 1, pid - 1) ELSE PyRange(pid + 1, node_id - 1),
      LAMBDA rangebetween :
    IF rangebetween = {} THEN [set |-> {}, exc |-> ""]
    ELSE Let(get_projection(pid, tree.children, Cardinality(DOMAIN tree.children) + 1), LAMBDA projection :
           IF projection.exc # "" THEN [set |-> {}, exc |-> projection.exc]
           ELSE [set |-> rangebetween \ projection.set, exc |-> ""])))

PolarityNeg == << "P", "o", "l", "a", "r", "i", "t", "y", "=", "N", "e", "g" >>

LeafDiag(testid, tree, idchild) ==
  Diag("validate_functional_leaves", "Syntax", 3, testid, LineOf(tree, idchild))

\* the tests at the end of the loop body
leaf_tests(pdeprel, cdeprel, tree, idchild) ==
  If(pdeprel \in {"mark", "case"}
     /\ cdeprel \notin {"advmod", "obl", "goeswith", "fixed", "reparandum", "conj", "cc", "punct"},
     << LeafDiag("leaf-mark-case", tree, idchild) >>)
  \o If(pdeprel \in {"aux", "cop"}
        /\ cdeprel \notin {"goeswith", "fixed", "reparandum", "conj", "cc", "punct"},
        << LeafDiag("leaf-aux-cop", tree, idchild) >>)
  \o (IF pdeprel = "cc" /\ cdeprel \notin {"goeswith", "fixed", "reparandum", "conj", "punct"}
        THEN << LeafDiag("leaf-cc", tree, idchild) >>
      ELSE IF pdeprel = "fixed" /\ cdeprel \notin {"goeswith", "reparandum", "conj", "punct"}
        THEN << LeafDiag("leaf-fixed", tree, idchild) >>
      ELSE IF pdeprel = "goeswith" THEN << LeafDiag("leaf-goeswith", tree, idchild) >>
      ELSE IF pdeprel = "punct" /\ cdeprel # "punct"
        THEN << LeafDiag("leaf-punct", tree, idchild) >>
      ELSE << >>)

\* the body of the loop over the children for one child
functional_leaf_child(idparent, idchild, tree) ==
  IF ~HasNode(tree, idchild) THEN Raised(<< >>, "IndexError in validate_functional_leaves")
  ELSE
  Let(lspec2ud(Node(tree, idparent).deprel), LAMBDA pdeprel :
  Let(Node(tree, idchild), LAMBDA child :
  Let(lspec2ud(child.deprel), LAMBDA cdeprel :
    IF pdeprel # "punct" /\ cdeprel = "advmod" /\ child.upos \in {"PART", "ADV"}
       /\ \E k \in 1..Len(child.feats) : child.feats[k] = PolarityNeg
      THEN Returned(<< >>)
    ELSE Let(get_gap(idparent, tree), LAMBDA gap :
           IF gap.exc # "" THEN Raised(<< >>, gap.exc)
           ELSE IF gap.set # {} /\ cdeprel = "punct" THEN Returned(<< >>)
           ELSE Returned(leaf_tests(pdeprel, cdeprel, tree, idchild))))))

RECURSIVE functional_leaves_loop(_, _, _)
functional_leaves_loop(idparent, kids, tree) ==
  IF kids = << >> THEN Returned(<< >>)
  ELSE Then(functional_leaf_child(idparent, kids[1], tree),
            functional_leaves_loop(idparent, Tail(kids), tree))

FunctionalRels == {"case", "mark", "cc", "aux", "cop", "det", "fixed", "goeswith", "punct"}

validate_functional_leaves(node_id, tree) ==
  IF lspec2ud(Node(tree, node_id).deprel) \notin FunctionalRels THEN Returned(<< >>)
  ELSE functional_leaves_loop(node_id, sorted(tree.children[node_id]), tree)

\* the function returns before its first test
validate_fixed_span(node_id, tree) == Returned(<< >>)

SpaceAfterNo == << "SpaceAfter", "No" >>

validate_goeswith_span(node_id, tree) ==
  LET by == "validate_goeswith_span"
      gwchildren == {x \in tree.children[node_id] : lspec2ud(Node(tree, x).deprel) = "goeswith"}
      gwset == {node_id} \cup gwchildren
      last == CHOOSE x \in gwset : \A y \in gwset : y <= x
      lastchild == CHOOSE x \in gwchildren : \A y \in gwchildren : y <= x
      gwrange == PyRange(node_id, int(Node(tree, lastchild).id) + 1)
      nospaceafter == {x \in gwset \ {last} :
                         \E k \in 1..Len(Node(tree, x).misc) : Node(tree, x).misc[k] = SpaceAfterNo}
  IN IF \E x \in tree.children[node_id] : ~HasNode(tree, x)
       THEN Raised(<< >>, "IndexError in validate_goeswith_span")
     ELSE IF gwchildren = {} THEN Returned(<< >>)
     ELSE Returned(If(gwset # gwrange, << NodeDiag(by, "goeswith-gap", tree, node_id) >>)
                   \o If(nospaceafter # {}, << NodeDiag(by, "goeswith-nospace", tree, node_id) >>))

validate_projective_punctuation(id, tree) ==
  IF lspec2ud(Node(tree, id).deprel) # "punct" THEN Returned(<< >>)
  ELSE Let(get_caused_nonprojectivities(id, tree), LAMBDA nonprojnodes :
         IF nonprojnodes.exc # "" THEN Raised(<< >>, nonprojnodes.exc)
         ELSE
       Let(If(nonprojnodes.list # << >>,
              << NodeDiag("validate_projective_punctuation", "punct-causes-nonproj", tree, id) >>),
           LAMBDA d :
       Let(get_gap(id, tree), LAMBDA gap :
         IF gap.exc # "" THEN Raised(d, gap.exc)
         ELSE Returned(d \o If(gap.set # {},
                               << NodeDiag("validate_projective_punctuation", "punct-is-nonproj",
                                           tree, id) >>)))))

\* the eight tests of validate_annotation on one node, in the order of the code
annotation_test(k, node_id, tree) ==
  CASE k = 1 -> validate_upos_vs_deprel(node_id, tree)
    [] k = 2 -> validate_left_to_right_relations(node_id, tree)
    [] k = 3 -> validate_single_subject(node_id, tree)
    [] k = 4 -> validate_orphan(node_id, tree)
    [] k = 5 -> validate_functional_leaves(node_id, tree)
    [] k = 6 -> validate_fixed_span(node_id, tree)
    [] k = 7 -> validate_goeswith_span(node_id, tree)
    [] k = 8 -> validate_projective_punctuation(node_id, tree)

RECURSIVE annotation_tests_from(_, _, _)
annotation_tests_from(k, node_id, tree) ==
  IF k > 8 THEN Returned(<< >>)
  ELSE Then(annotation_test(k, node_id, tree), annotation_tests_from(k + 1, node_id, tree))

annotation_of_node(node_id, tree) == annotation_tests_from(1, node_id, tree)

\* for node in tree["nodes"]: node_id = int(node[ID]); k is the position of
\* the node in the list
RECURSIVE validate_annotation_loop(_, _)
validate_annotation_loop(k, tree) ==
  IF k > Len(tree.nodes) THEN Returned(<< >>)
  ELSE Then(annotation_of_node(int(tree.nodes[k].id), tree),
            validate_annotation_loop(k + 1, tree))

validate_annotation(tree) == validate_annotation_loop(1, tree)

----------------------------------------------------------------------------
(* Level 3: validate_enhanced_annotation on the graph build_egraph returned.
   markers holds line_of_first_empty_node and line_of_first_enhanced_orphan
   (0 for None). *)

EnhancedDiag(testid, lineno) ==
  Diag("validate_enhanced_annotation", "Enhanced", 3, testid, lineno)

\* if line_of_first_empty_node
empty_node_seen(markers) == markers.empty # 0

\* one pass of the loop body, for the key id
enhanced_annotation_of(id, graph, markers) ==
  LET node == graph[id]
      empty == is_empty_node(node.cols)
      first_empty == empty /\ ~empty_node_seen(markers)
      m1 == IF first_empty THEN [markers EXCEPT !.empty = node.lineno] ELSE markers
      d1 == If(first_empty /\ markers.orphan # 0,
               << EnhancedDiag("empty-node-after-eorphan", node.lineno) >>)
      orphan == \E j \in 1..Len(node.deps) : lspec2ud(node.deps[j][2]) = "orphan"
      m2 == IF orphan /\ m1.orphan = 0 THEN [m1 EXCEPT !.orphan = node.lineno] ELSE m1
      d2 == If(orphan /\ empty_node_seen(m1),
               << EnhancedDiag("eorphan-after-empty-node", node.lineno) >>)
  IN [diags |-> d1 \o d2, markers |-> m2]

\* for id in graph.keys(); a key that build_egraph entered for a head only
\* has no "cols"
RECURSIVE enhanced_annotation_loop(_, _, _, _)
enhanced_annotation_loop(keys, graph, markers, diags) ==
  IF keys = << >> THEN [diags |-> diags, exc |-> "", markers |-> markers]
  ELSE IF ~graph[keys[1]].has_cols
    THEN [diags |-> diags, exc |-> "KeyError in validate_enhanced_annotation",
          markers |-> markers]
  ELSE Let(enhanced_annotation_of(keys[1], graph, markers), LAMBDA r :
         enhanced_annotation_loop(Tail(keys), graph, r.markers, diags \o r.diags))

validate_enhanced_annotation(egraph, markers) ==
  enhanced_annotation_loop(egraph.keys, egraph.nodes, markers, << >>)

----------------------------------------------------------------------------
(* Level 5: validate_lspec_annotation.  The language is "ud", for which the
   code knows no auxiliaries and no copulas. *)

validate_auxiliary_verbs(cols, line) ==
  Returned(If(cols.upos = "AUX" /\ ColumnFilled(cols, LEMMA_COL),
              << Diag("validate_auxiliary_verbs", "Morpho", 5, "aux-lemma", line) >>))

validate_copula_lemmas(cols, line) ==
  Returned(If(cols.deprel = "cop" /\ ColumnFilled(cols, LEMMA_COL),
              << Diag("validate_copula_lemmas", "Syntax", 5, "cop-lemma", line) >>))

\* the first loop returns when a word has no usable HEAD
lspec_gives_up(tree) ==
  \E i \in 1..Len(tree) :
    /\ is_word(tree[i])
    /\ \A j \in 1..(i - 1) : is_word(tree[j]) => HEAD < tree[j].n /\ CanInt(tree[j].head)
    /\ (HEAD >= tree[i].n \/ ~CanInt(tree[i].head))

\* lines.setdefault(cols[ID], node_line): the line of the first word with the id
lspec_line(tree, sline, i) ==
  sline - 1 + CHOOSE k \in 1..i :
                /\ is_word(tree[k]) /\ tree[k].id = tree[i].id
                /\ \A j \in 1..(k - 1) : ~(is_word(tree[j]) /\ tree[j].id = tree[i].id)

RECURSIVE lspec_loop(_, _, _)
lspec_loop(i, tree, sline) ==
  IF i > Len(tree) THEN Returned(<< >>)
  ELSE IF ~is_word(tree[i]) THEN lspec_loop(i + 1, tree, sline)
  ELSE Then(validate_auxiliary_verbs(tree[i], lspec_line(tree, sline, i)),
       Then(validate_copula_lemmas(tree[i], lspec_line(tree, sline, i)),
            lspec_loop(i + 1, tree, sline)))

validate_lspec_annotation(tree, sline) ==
  IF lspec_gives_up(tree) THEN Returned(<< >>) ELSE lspec_loop(1, tree, sline)

----------------------------------------------------------------------------
(* validate(): the tests run on one yielded block.  calls lists the level 3
   and level 5 functions validate() has called for the block, in order. *)

\* a variant that takes every result of build_tree for a tree
never_falsy(tree) == FALSE

\* "if tree:" fails when build_tree has returned None
falsy(tree) == tree.none

\* a variant that skips the tests without a word
skipped_silently == << >>

\* the else branch of "if tree:"
skipped_corrupt_tree == << TreeDiag("validate", "Format", 2, "skipped-corrupt-tree") >>

\* the part of validate() after build_tree and build_egraph have returned
annotation_tests(tree, egraph, sentence, a, sline, markers) ==
  LET ran(r, calls) == [diags |-> r.diags, exc |-> r.exc, markers |-> markers, calls |-> calls]
      basic ==
        IF falsy(tree) THEN ran(Returned(skipped_corrupt_tree), << >>)
        ELSE IF a.level <= 2 THEN ran(Returned(<< >>), << >>)
        ELSE Let(validate_annotation(tree), LAMBDA ann :
               IF ann.exc # "" \/ a.level <= 4 THEN ran(ann, << "validate_annotation" >>)
               ELSE ran(Then(ann, validate_lspec_annotation(sentence, sline)),
                        << "validate_annotation", "validate_lspec_annotation" >>))
  IN IF basic.exc # "" \/ egraph.none \/ a.level <= 2 THEN basic
     ELSE Let(validate_enhanced_annotation(egraph, markers), LAMBDA enh :
            [diags |-> basic.diags \o enh.diags, exc |-> enh.exc, markers |-> enh.markers,
             calls |-> Append(basic.calls, "validate_enhanced_annotation")])

validate_block(cmts, sentence, a, sline, known_ids, markers) ==
  LET level1 == Then(validate_ID_sequence(sentence), validate_token_ranges(sentence))
      sid == validate_sent_id(cmts, known_ids, a.lang)
      stopped(r) == [diags |-> r.diags, exc |-> r.exc, markers |-> markers, calls |-> << >>]
      level2 ==
        Let(Then(level1,
            Then(Returned(sid.diags),
            Then(validate_root(sentence),
            Then(validate_ID_references(sentence),
            Then(validate_deps(sentence, sline),
                 validate_misc(sentence, sline)))))), LAMBDA checked :
        IF checked.exc # "" THEN stopped(checked)
        ELSE Let(build_tree(sentence, sline, a), LAMBDA tree :
          IF tree.exc # "" THEN stopped(Then(checked, tree))
          ELSE Let(build_egraph(sentence, sline), LAMBDA egraph :
            IF egraph.exc # "" THEN stopped(Then(checked, Then(tree, egraph)))
            ELSE Let(annotation_tests(tree.tree, egraph.egraph, sentence, a, sline, markers),
                     LAMBDA tests :
                     [diags |-> checked.diags \o tree.diags \o egraph.diags \o tests.diags,
                      exc |-> tests.exc, markers |-> tests.markers, calls |-> tests.calls]))))
  IN Let(IF a.level > 1 THEN level2 ELSE stopped(level1), LAMBDA all :
       [diags |-> all.diags, exc |-> all.exc,
        known |-> IF a.level > 1 THEN sid.known ELSE known_ids,
        markers |-> all.markers, calls |-> all.calls])

----------------------------------------------------------------------------
(* warn(). *)

\* where a printed diagnostic says it is
Location(d, cl, sl, tc) ==
  IF d.nodelineno # 0 THEN << "Line", d.nodelineno >>
  ELSE IF d.lineno THEN << "Line", cl >>
  ELSE << "Tree", tc, sl >>

\* the count warn() reads after error_counter[error_type] += 1
counted(ec, d) == IF d.testclass \in DOMAIN ec THEN ec[d.testclass] + 1 ELSE 1

\* whether warn() prints the diagnostic itself
prints_diagnostic(a, count) ==
  ~a.quiet /\ ~(a.max_err > 0 /\ count >= a.max_err)

\* whether warn() prints the notice that the category is suppressed from now on
prints_suppressing(a, count) ==
  ~a.quiet /\ a.max_err > 0 /\ count = a.max_err

\* one call of warn(): st holds error_counter, stderr and log; g the globals
warn(st, d, a, g) ==
  LET count == counted(st.ec, d)
  IN [ec |-> [k \in DOMAIN st.ec \cup {d.testclass} |->
                 IF k = d.testclass THEN count ELSE st.ec[k]],
      err |-> IF prints_suppressing(a, count)
                THEN Append(st.err, [suppressing |-> d.testclass])
              ELSE IF prints_diagnostic(a, count)
                THEN Append(st.err,
                            [file |-> IF a.ninput > 1 THEN g.fidx ELSE 0,
                             where |-> Location(d, g.curr_line, g.sentence_line, g.tree_counter),
                             sent |-> g.sentence_id, testlevel |-> d.testlevel,
                             testclass |-> d.testclass, testid |-> d.testid])
              ELSE st.err,
      log |-> Append(st.log, [d |-> d, at |-> g.curr_line, stream |-> g.fidx,
                              tree |-> g.tree_counter])]

RECURSIVE warn_all(_, _, _, _)
warn_all(st, ds, a, g) ==
  IF ds = << >> THEN st
  ELSE Let(warn(st, ds[1], a, g), LAMBDA st1 : warn_all(st1, Tail(ds), a, g))

\* warn("Exception caught!", "Format") of the except clause of __main__
ExceptionCaught == Diag("__main__", "Format", 0, "some-test", 0)

\* a variant in which the loop over the sentences goes on after an exception
resumes(after) == after

\* where the run goes on after the except clause: behind the try block
except_clause(after) == "summary"

\* The effect on the diagnostic sink and on the control state of a step of
\* validate(): trees() made the warn() calls `before` with the globals g0, then
\* the warn() calls r.diags were made with the globals g, and the step returned
\* (the run goes on at `after`) or raised (the except clause of __main__ takes
\* over and calls warn once more).
Sink(before, g0, r, g, after) ==
  LET st0 == [ec |-> error_counter, err |-> stderr, log |-> log]
  IN \E st1 \in {warn_all(st0, before, args, g0)} :
     \E st2 \in {warn_all(st1, r.diags \o If(r.exc # "", << ExceptionCaught >>), args, g)} :
       /\ error_counter' = st2.ec
       /\ stderr' = st2.err
       /\ log' = st2.log
       /\ exc' = r.exc
       /\ pc' = IF r.exc = "" THEN after ELSE except_clause(after)

----------------------------------------------------------------------------
(* The lines a stream can hold. *)

\* a token row of n columns; the columns at index n and beyond do not exist
Cols(id, n, upos, head, deprel, deps) ==
  [id |-> id, n |-> n,
   lemma |-> IF LEMMA_COL < n THEN "_" ELSE "absent",
   upos |-> IF UPOS < n THEN upos ELSE "absent",
   feats |-> IF FEATS < n THEN << >> ELSE "absent",
   head |-> IF HEAD < n THEN head ELSE "absent",
   deprel |-> IF DEPREL < n THEN deprel ELSE "absent",
   deps |-> IF DEPS < n THEN deps ELSE "absent",
   misc |-> IF MISC < n THEN << >> ELSE "absent"]

One == << "1" >>
IdMwt == << "1", "-", "2" >>
IdEmpty == << "1", ".", "1" >>

TokenRows ==
  { Cols(One, 10, "NOUN", Zero, "root", << >>),
    \* a UPOS of the right shape that is not in the tag set
    Cols(<< "2" >>, 10, "XYZ", One, "dep", << >>),
    \* HEAD larger than the number of rows of any modelled sentence
    Cols(One, 10, "NOUN", << "5" >>, "dep", << >>),
    \* a DEPS head naming an ID that does not exist
    Cols(One, 10, "NOUN", Zero, "root", << << << "7" >>, "dep" >> >>),
    \* column counts other than 10, for each kind of ID
    Cols(One, 11, "NOUN", Zero, "root", << >>),
    Cols(One, 7, "NOUN", Zero, "root", << >>),
    Cols(One, 3, "NOUN", Zero, "root", << >>),
    Cols(IdMwt, 3, "_", Underscore, "_", << >>),
    Cols(IdEmpty, 3, "_", Underscore, "_", << >>) }

\* comment lines: sid is the group of sentid_re ("" when it does not match),
\* prefix whether the line starts with "# sent_id" or "#sent_id"
CommentLines ==
  { [sid |-> "a", prefix |-> TRUE], [sid |-> "b", prefix |-> TRUE],
    [sid |-> "", prefix |-> FALSE] }

Levels == {1, 2}
CapValues == {0, 2}

----------------------------------------------------------------------------
(* trees() and validate(), one action per line read. *)

Globals(cl, sl, sid, tc) ==
  [fidx |-> fidx, curr_line |-> cl, sentence_line |-> sl, sentence_id |-> sid,
   tree_counter |-> tc]

\* the lines a run may read and the token rows and comment lines it may hold:
\* those of MaxLines, TokenRows and CommentLines, or those `probe` names
LineBudget == IF probe.name = "none" THEN MaxLines ELSE probe.budget
RowsRead == IF probe.name = "none" THEN TokenRows ELSE probe.rows
CommentsRead == IF probe.name = "none" THEN CommentLines ELSE probe.comments

CanRead == pc = "read" /\ nread < LineBudget

\* the globals validate_enhanced_annotation reads and writes
Markers == [empty |-> line_of_first_empty_node, orphan |-> line_of_first_enhanced_orphan]

\* the record of a block handed to validate()
Validated(r) ==
  [stream |-> fidx, comments |-> comments, lines |-> lines, sentence_line |-> sentence_line,
   markers |-> Markers, calls |-> r.calls]

\* for line_counter, line in enumerate(inp): curr_line = line_counter + 1
NextLine(line) ==
  /\ curr_line' = Len(consumed) + 1
  /\ consumed' = Append(consumed, line)
  /\ nread' = nread + 1

\* `if lines:` on a blank or whitespace-only line: the sentence is done
sentence_done(ls) == ls # << >>

\* a variant that looks at the token rows only
pending_rows_only(cmts, ls) == ls # << >>

\* `if comments or lines:` at the end of the stream
pending_at_end(cmts, ls) == cmts # << >> \/ ls # << >>

\* a variant that flags every empty line
empty_line_always(ls) == << Diag("trees", "Format", 1, "extra-empty-line", 0) >>

\* the warn() call of the branch of an empty line
empty_line_diags(ls) ==
  If(~sentence_done(ls), << Diag("trees", "Format", 1, "extra-empty-line", 0) >>)

\* a variant that takes the label from accepted comments only
label_if_accepted(sid, c) == IF c.sid # "" /\ lines = << >> THEN c.sid ELSE sid

\* sentence_id after a comment line has been read
label_after(sid, c) == IF c.sid # "" THEN c.sid ELSE sid

\* `yield comments, lines` and the body of the loop of validate() that runs on
\* the block, after the warn() calls `before` of trees(); the generator resumes
\* after the yield (at `after`) only if the consumer returned
YieldBlock(before, sid, after) ==
  \E r \in {validate_block(comments, lines, args, sentence_line, known_sent_ids, Markers)} :
     /\ tree_counter' = tree_counter + 1
     /\ yielded' = Append(yielded, [comments |-> comments, lines |-> lines])
     /\ validated' = Append(validated, Validated(r))
     /\ known_sent_ids' = r.known
     /\ line_of_first_empty_node' = r.markers.empty
     /\ line_of_first_enhanced_orphan' = r.markers.orphan
     /\ Sink(before, Globals(curr_line', sentence_line, sid, tree_counter),
             [diags |-> r.diags, exc |-> r.exc],
             Globals(curr_line', sentence_line, sid, tree_counter + 1), after)
     /\ comments' = IF r.exc = "" THEN << >> ELSE comments
     /\ lines' = IF r.exc = "" THEN << >> ELSE lines

\* a step of the loop of trees() that yields nothing
NoYield(ds, sid, after) ==
  /\ Sink(ds, Globals(curr_line', sentence_line, sid, tree_counter),
          Returned(<< >>), Globals(curr_line', sentence_line, sid, tree_counter), after)
  /\ UNCHANGED << tree_counter, yielded, known_sent_ids, comments, lines,
                  line_of_first_empty_node, line_of_first_enhanced_orphan, validated >>

ReadWhitespaceLine ==
  LET d == Diag("trees", "Format", 1, "pseudo-empty-line", 0)
  IN /\ CanRead
     /\ NextLine([kind |-> "whitespace"])
     /\ IF sentence_done(lines)
          THEN YieldBlock(<< d >>, sentence_id, "read")
          ELSE NoYield(<< d >>, sentence_id, "read")
     /\ UNCHANGED << args, fidx, sentence_line, sentence_id, cols_calls, exit_status, probe >>

ReadEmptyLine ==
  /\ CanRead
  /\ NextLine([kind |-> "empty"])
  /\ IF sentence_done(lines)
       THEN YieldBlock(empty_line_diags(lines), sentence_id, "read")
       ELSE NoYield(empty_line_diags(lines), sentence_id, "read")
  /\ UNCHANGED << args, fidx, sentence_line, sentence_id, cols_calls, exit_status, probe >>

ReadComment ==
  \E c \in CommentsRead :
    /\ CanRead
    /\ NextLine([kind |-> "comment", comment |-> c])
    /\ sentence_id' = label_after(sentence_id, c)
    /\ tree_counter' = tree_counter
    /\ IF lines = << >>
         THEN /\ comments' = Append(comments, c)
              /\ Sink(<< >>, Globals(curr_line', sentence_line, sentence_id', tree_counter),
                      Returned(<< >>),
                      Globals(curr_line', sentence_line, sentence_id', tree_counter), "read")
         ELSE /\ comments' = comments
              /\ Sink(<< Diag("trees", "Format", 1, "misplaced-comment", 0) >>,
                      Globals(curr_line', sentence_line, sentence_id', tree_counter),
                      Returned(<< >>),
                      Globals(curr_line', sentence_line, sentence_id', tree_counter), "read")
    /\ UNCHANGED << args, fidx, sentence_line, lines, yielded, known_sent_ids, cols_calls,
                    exit_status, line_of_first_empty_node, line_of_first_enhanced_orphan,
                    validated, probe >>

\* a variant that ignores the level
row_validator_always(a) == TRUE

\* whether trees() hands a row to validate_cols
row_validator_runs(a) == a.level > 1

ReadTokenRow ==
  \E cols \in RowsRead :
    LET arity == If(cols.n # COLCOUNT, << Diag("trees", "Format", 1, "number-of-columns", 0) >>)
        r == Then(validate_cols_level1(cols),
                  IF row_validator_runs(args) THEN validate_cols(cols, args)
                  ELSE Returned(<< >>))
    IN /\ CanRead
       /\ NextLine([kind |-> "row", cols |-> cols])
       /\ sentence_line' = IF lines = << >> THEN curr_line' ELSE sentence_line
       /\ lines' = Append(lines, cols)
       /\ cols_calls' = IF row_validator_runs(args) THEN Append(cols_calls, curr_line')
                        ELSE cols_calls
       /\ Sink(arity, Globals(curr_line', sentence_line', sentence_id, tree_counter),
               r, Globals(curr_line', sentence_line', sentence_id, tree_counter), "read")
       /\ UNCHANGED << args, fidx, sentence_id, comments, tree_counter, yielded,
                       known_sent_ids, exit_status, line_of_first_empty_node,
                       line_of_first_enhanced_orphan, validated, probe >>

ReadInvalidLine ==
  /\ CanRead
  /\ NextLine([kind |-> "invalid"])
  /\ NoYield(<< Diag("trees", "Format", 1, "invalid-line", 0) >>, sentence_id, "read")
  /\ UNCHANGED << args, fidx, sentence_line, sentence_id, cols_calls, exit_status, probe >>

\* the end of the stream: the else clause of the loop of trees(); the block
\* still pending is yielded and validated.  validate_newlines then finds
\* nothing (the modelled streams end their lines with LF).
EndOfStream ==
  /\ pc = "read"
  /\ curr_line' = curr_line
  /\ IF pending_at_end(comments, lines)
       THEN /\ tree_counter' = tree_counter + 1
            /\ yielded' = Append(yielded, [comments |-> comments, lines |-> lines])
            /\ \E r \in {validate_block(comments, lines, args, sentence_line,
                                         known_sent_ids, Markers)} :
                 /\ validated' = Append(validated, Validated(r))
                 /\ known_sent_ids' = r.known
                 /\ line_of_first_empty_node' = r.markers.empty
                 /\ line_of_first_enhanced_orphan' = r.markers.orphan
                 /\ Sink(<< Diag("trees", "Format", 1, "missing-empty-line", 0) >>,
                         Globals(curr_line, sentence_line, sentence_id, tree_counter),
                         [diags |-> r.diags, exc |-> r.exc],
                         Globals(curr_line, sentence_line, sentence_id, tree_counter + 1),
                         "eof")
       ELSE /\ Sink(<< >>, Globals(curr_line, sentence_line, sentence_id, tree_counter),
                    Returned(<< >>),
                    Globals(curr_line, sentence_line, sentence_id, tree_counter), "eof")
            /\ UNCHANGED << tree_counter, yielded, known_sent_ids, validated,
                            line_of_first_empty_node, line_of_first_enhanced_orphan >>
  /\ UNCHANGED << args, fidx, sentence_line, sentence_id, comments, lines,
                  consumed, cols_calls, nread, exit_status, probe >>

\* for curr_fname, inp in zip(args.input, open_files): the next stream, or the
\* end of the try block
NextStream ==
  /\ pc = "eof"
  /\ IF fidx < args.ninput
       THEN /\ fidx' = fidx + 1
            /\ pc' = "read"
            /\ comments' = << >>
            /\ lines' = << >>
            /\ consumed' = << >>
            /\ yielded' = << >>
            /\ cols_calls' = << >>
       ELSE /\ pc' = "summary"
            /\ UNCHANGED << fidx, comments, lines, consumed, yielded, cols_calls >>
  /\ UNCHANGED << args, curr_line, sentence_line, sentence_id, tree_counter, error_counter,
                  known_sent_ids, stderr, log, exc, nread, exit_status,
                  line_of_first_empty_node, line_of_first_enhanced_orphan, validated, probe >>

\* a variant that looks at what was printed
exit_code_printed(ec) == IF stderr = << >> THEN 0 ELSE 1

\* if not error_counter: sys.exit(0) else: sys.exit(1)
exit_code(ec) == IF DOMAIN ec = {} THEN 0 ELSE 1

Exit ==
  /\ pc = "summary"
  /\ pc' = "exit"
  /\ exit_status' = exit_code(error_counter)
  /\ stderr' = IF args.quiet THEN stderr
               ELSE Append(stderr, [summary |-> IF DOMAIN error_counter = {} THEN "PASSED"
                                                 ELSE "FAILED"])
  /\ UNCHANGED << args, fidx, curr_line, sentence_line, sentence_id, comments, lines,
                  tree_counter, error_counter, known_sent_ids, log, yielded, consumed,
                  cols_calls, exc, nread, line_of_first_empty_node,
                  line_of_first_enhanced_orphan, validated, probe >>

NoProbe == [name |-> "none"]

\* the globals and the ghost variables before anything has been read
Started ==
  /\ pc = "read"
  /\ fidx = 1
  /\ curr_line = 0
  /\ sentence_line = 0
  /\ sentence_id = ""
  /\ comments = << >>
  /\ lines = << >>
  /\ tree_counter = 0
  /\ error_counter = << >>
  /\ known_sent_ids = {}
  /\ stderr = << >>
  /\ log = << >>
  /\ yielded = << >>
  /\ consumed = << >>
  /\ cols_calls = << >>
  /\ exc = ""
  /\ nread = 0
  /\ exit_status = 0 - 1
  /\ line_of_first_empty_node = 0
  /\ line_of_first_enhanced_orphan = 0
  /\ validated = << >>

Init ==
  /\ args \in {a \in [level : Levels, quiet : BOOLEAN, max_err : CapValues,
                        single_root : {TRUE}, check_tree_text : {FALSE}, lang : {"ud"},
                        ninput : 1..MaxStreams] : a.quiet => a.max_err = 0}
  /\ Started
  /\ probe = NoProbe

Next ==
  \/ ReadWhitespaceLine
  \/ ReadEmptyLine
  \/ ReadComment
  \/ ReadTokenRow
  \/ ReadInvalidLine
  \/ EndOfStream
  \/ NextStream
  \/ Exit

Spec == Init /\ [][Next]_vars

----------------------------------------------------------------------------
(* Properties of a run.  `log` holds the warn() calls of the run, `consumed`
   the lines read from the current stream and `yielded` the blocks that
   trees() yielded from it. *)

\* the warn() calls made by the step just taken
NewLog == SubSeq(log', Len(log) + 1, Len(log'))

\* what the step just taken printed
NewStderr == SubSeq(stderr', Len(stderr) + 1, Len(stderr'))

\* the number of warn() calls of l made from `by` with rule id `testid`
Calls(l, by, testid) ==
  Cardinality({i \in 1..Len(l) : l[i].d.by = by /\ l[i].d.testid = testid})

\* the number of warn() calls of the run in a category
Recorded(testclass) ==
  Cardinality({i \in 1..Len(log) : log[i].d.testclass = testclass})

\* the diagnostics printed in full
PrintedDiagnostics ==
  Cardinality({i \in 1..Len(stderr) : "testid" \in DOMAIN stderr[i]})

\* the step just taken read a line
ReadsLine == Len(consumed') = Len(consumed) + 1

\* the step just taken found the end of the stream
EndsStream == pc = "read" /\ pc' # "read" /\ consumed' = consumed

\* the token rows read from the current stream, in order
ConsumedRows ==
  LET R == SelectSeq(consumed, LAMBDA l : l.kind = "row")
  IN [i \in 1..Len(R) |-> R[i].cols]

\* whether token rows are pending after the first k lines of the stream
RECURSIVE RowsPending(_)
RowsPending(k) ==
  IF k = 0 THEN FALSE
  ELSE IF consumed[k].kind = "row" THEN TRUE
  ELSE IF consumed[k].kind \in {"empty", "whitespace"} THEN FALSE
  ELSE RowsPending(k - 1)

\* the comment lines of the current stream that were read before a token row
\* of their sentence, in order
AcceptedComments ==
  LET I == {i \in 1..Len(consumed) : consumed[i].kind = "comment" /\ ~RowsPending(i - 1)}
      S == sorted(I)
  IN [k \in 1..Len(S) |-> consumed[S[k]].comment]

RECURSIVE BlockRows(_)
BlockRows(blocks) ==
  IF blocks = << >> THEN << >> ELSE blocks[1].lines \o BlockRows(Tail(blocks))

RECURSIVE BlockComments(_)
BlockComments(blocks) ==
  IF blocks = << >> THEN << >> ELSE blocks[1].comments \o BlockComments(Tail(blocks))

\* C1: the run ends with exit status 0 if and only if warn() was never called,
\* and with status 1 otherwise; error_counter holds every warn() call of the
\* run, printed or not.
ExitStatusIffNoDiagnostic ==
  /\ (pc = "exit") = (exit_status # 0 - 1)
  /\ pc = "exit" => exit_status = IF log = << >> THEN 0 ELSE 1
  /\ DOMAIN error_counter = {log[i].d.testclass : i \in 1..Len(log)}
  /\ \A k \in DOMAIN error_counter : error_counter[k] = Recorded(k)

\* a capped run that ended with status 1 and diagnostics that were not printed
Witness_C1 ==
  /\ pc = "exit" /\ exit_status = 1
  /\ ~args.quiet /\ args.max_err > 0
  /\ \E i \in 1..Len(stderr) : "suppressing" \in DOMAIN stderr[i]
  /\ PrintedDiagnostics < Len(log) - 1

\* C2: no check aborts processing: in a run whose rows all have ten columns no
\* exception leaves validate(), and the run ends only after its last stream.
NoCheckAborts ==
  (\A i \in 1..Len(log) : log[i].d.testid # "number-of-columns")
    => /\ exc = ""
       /\ pc \in {"summary", "exit"} => fidx = args.ninput

\* C3 (state part): while a stream is read, the token rows and the accepted
\* comments read so far are those of the yielded blocks followed by the pending
\* ones, in input order; when the stream has ended, every one of them is in a
\* yielded block.
BlocksPartitionInput ==
  /\ pc = "read" => /\ ConsumedRows = BlockRows(yielded) \o lines
                    /\ AcceptedComments = BlockComments(yielded) \o comments
  /\ pc = "eof" => /\ ConsumedRows = BlockRows(yielded)
                   /\ AcceptedComments = BlockComments(yielded)

\* C3 (step part): a block is yielded exactly when a blank or whitespace-only
\* line is read while token rows are pending, or the stream ends while comments
\* or token rows are pending; the block is the pending comments and rows.
YieldsWhenDue ==
  LET blank == ReadsLine /\ Last(consumed').kind \in {"empty", "whitespace"}
      due == \/ blank /\ lines # << >>
             \/ EndsStream /\ (comments # << >> \/ lines # << >>)
  IN fidx' = fidx =>
       yielded' = IF due THEN Append(yielded, [comments |-> comments, lines |-> lines])
                  ELSE yielded

\* C3: the segmenter yields a block exactly when (a) a blank or whitespace-only
\* line is read while a token row is pending or (b) the stream ends while a
\* comment or a token row is pending; the block holds the accepted comments and
\* the token rows read since the previous yield, in input order, and every
\* token row of a stream that was read to its end is in exactly one block.
SegmenterYields == [](BlocksPartitionInput) /\ [][YieldsWhenDue]_vars

\* a stream read to its end that yielded one block at a blank line and one at
\* the end of the stream
Witness_C3 ==
  /\ pc = "eof" /\ Len(yielded) = 2
  /\ consumed[Len(consumed)].kind = "row"
  /\ \E i \in 1..Len(consumed) : consumed[i].kind = "empty"

\* C4 (step part): what trees() reports about the line just read, or about the
\* end of the stream
SegmenterReports ==
  LET kind == IF ReadsLine THEN Last(consumed').kind
              ELSE IF EndsStream THEN "end" ELSE "none"
      by_trees == {i \in 1..Len(NewLog) : NewLog[i].d.by = "trees"}
  IN /\ Calls(NewLog, "trees", "pseudo-empty-line") = IF kind = "whitespace" THEN 1 ELSE 0
     /\ Calls(NewLog, "trees", "extra-empty-line")
          = IF kind = "empty" /\ lines = << >> THEN 1 ELSE 0
     /\ Calls(NewLog, "trees", "missing-empty-line")
          = IF kind = "end" /\ (comments # << >> \/ lines # << >>) THEN 1 ELSE 0
     /\ kind = "whitespace" /\ lines # << >> => Len(yielded') = Len(yielded) + 1
     /\ kind = "empty" /\ lines # << >> => by_trees = {}
     /\ kind \in {"whitespace", "empty", "end"} => Cardinality(by_trees) <= 1
     /\ \A i \in by_trees : NewLog[i].d.testclass = "Format"

\* C4: the segmenter emits exactly one 'pseudo-empty-line' for every
\* whitespace-only line (which also ends the current sentence), one
\* 'extra-empty-line' for every blank line read while no token row is pending,
\* one 'missing-empty-line' at the end of a stream if and only if comments or
\* rows are pending, and nothing for a blank line that ends a sentence.
SegmenterDiagnostics == [][SegmenterReports]_vars

\* a stream whose first sentence was ended by a whitespace-only line and whose
\* last block was pending at the end
Witness_C4 ==
  /\ pc = "eof" /\ Len(yielded) = 2
  /\ \E i \in 2..Len(consumed) : consumed[i].kind = "whitespace" /\ consumed[i - 1].kind = "row"
  /\ \E i \in 1..Len(log) : log[i].d.testid = "pseudo-empty-line"
  /\ \E i \in 1..Len(log) : log[i].d.testid = "missing-empty-line"

\* C5 (step part): reading a token row whose column count is not 10
WrongColumnCountStep ==
  (ReadsLine /\ Last(consumed').kind = "row" /\ Last(consumed').cols.n # COLCOUNT)
    => /\ Calls(NewLog, "trees", "number-of-columns") = 1
       /\ lines' = Append(lines, Last(consumed').cols)
       /\ exc' = ""

\* C5: a token row whose column count is not 10 gets exactly one
\* 'number-of-columns' diagnostic, is kept in its block, and no check that
\* needs an absent column raises, whatever the kind of ID and the level.
WrongColumnCountTolerated == [][WrongColumnCountStep]_vars

\* C6 (step part): the label after a step
LabelStep ==
  LET labelled == /\ ReadsLine /\ Last(consumed').kind = "comment"
                  /\ Last(consumed').comment.sid # ""
      sid == Last(consumed').comment.sid
  IN /\ sentence_id' = IF labelled THEN sid ELSE sentence_id
     /\ (labelled /\ lines # << >>)
          => /\ comments' = comments
             /\ Calls(NewLog, "trees", "misplaced-comment") = 1
             /\ \A i \in 1..Len(NewStderr) :
                  "sent" \in DOMAIN NewStderr[i] => NewStderr[i].sent = sid

\* C6: a comment line of the shape '# sent_id = <token>' sets the current
\* sentence label to its value in the step that reads it, also when the comment
\* is misplaced (flagged and not added to the comments of the block); no other
\* step changes or clears the label.
LabelFollowsComments == [][LabelStep]_vars

\* a misplaced sent_id comment replaced the label of an accepted one
Witness_C6 ==
  /\ Len(consumed) = 3 /\ pc = "read"
  /\ consumed[1].kind = "comment" /\ consumed[1].comment.sid = "a"
  /\ consumed[2].kind = "row"
  /\ consumed[3].kind = "comment" /\ consumed[3].comment.sid = "b"
  /\ sentence_id = "b" /\ Len(comments) = 1

\* the functions validate_cols calls
RowValidatorChecks ==
  {"validate_character_constraints", "validate_features", "validate_upos",
   "validate_deprels", "validate_token_empty_vals", "validate_empty_node_empty_vals",
   "validate_whitespace"}

\* the tests validate() runs on a yielded block
BlockChecks ==
  {"validate_ID_sequence", "validate_token_ranges", "validate_sent_id", "validate_root",
   "validate_ID_references", "validate_deps", "validate_misc", "build_tree", "build_egraph",
   "validate"}

\* C7: at a level above 1 validate_cols has been called on every token row read,
\* in the step that read it, so that the diagnostics of the row validator about
\* a row come before every diagnostic about a later line and before the
\* diagnostics of the tests on the block of the row; at level 1 validate_cols is
\* never called.
RowValidatorRunsAtOnce ==
  /\ args.level > 1 =>
       cols_calls = sorted({i \in 1..Len(consumed) : consumed[i].kind = "row"})
  /\ args.level = 1 =>
       /\ cols_calls = << >>
       /\ \A i \in 1..Len(log) : log[i].d.by \notin RowValidatorChecks
  /\ \A i, j \in 1..Len(log) :
       (i < j /\ log[i].stream = log[j].stream /\ log[j].d.by \in RowValidatorChecks)
         => /\ log[i].at <= log[j].at
            /\ log[i].at = log[j].at
                 => \/ log[i].d.by \in RowValidatorChecks \cup {"validate_cols_level1"}
                    \/ log[i].d.testid = "number-of-columns"

\* a row-level diagnostic of a row was followed by a diagnostic of a test on
\* its block
Witness_C7 ==
  /\ args.level > 1 /\ cols_calls # << >>
  /\ \E i, j \in 1..Len(log) :
       /\ i < j /\ log[i].stream = log[j].stream
       /\ log[i].d.by \in RowValidatorChecks
       /\ log[j].d.by \in BlockChecks

----------------------------------------------------------------------------
(* The level 1 tests of the IDs of a block, run on their own: `probe` holds a
   block of rows built row by row and, once the tests have run, their warn()
   calls. *)

\* the values of ID of the rows of a probed block
IdSamples ==
  { << "1" >>, << "2" >>, << "3" >>,
    << "1", "-", "2" >>, << "2", "-", "3" >>, << "3", "-", "2" >>, << "2", "-", "2" >>,
    << "1", ".", "1" >> }

\* a row of ten columns with nothing but the ID
IdRow(id) == Cols(id, COLCOUNT, "_", Underscore, "_", << >>)

\* the arguments of a probing run
ProbeArgs ==
  [level |-> 2, quiet |-> FALSE, max_err |-> 0, single_root |-> TRUE,
   check_tree_text |-> FALSE, lang |-> "ud", ninput |-> 1]

Untouched ==
  UNCHANGED << args, pc, fidx, curr_line, sentence_line, sentence_id, comments, lines,
               tree_counter, error_counter, known_sent_ids, stderr, log, yielded,
               consumed, cols_calls, exc, nread, exit_status, line_of_first_empty_node,
               line_of_first_enhanced_orphan, validated >>

InitIds ==
  /\ args = ProbeArgs
  /\ Started
  /\ probe = [name |-> "ids", tree |-> << >>, ran |-> FALSE, out |-> << >>]

AppendIdRow ==
  \E id \in IdSamples :
    /\ ~probe.ran
    /\ Len(probe.tree) < MaxRows
    /\ probe' = [probe EXCEPT !.tree = Append(@, IdRow(id))]
    /\ Untouched

\* validate_ID_sequence(sentence); validate_token_ranges(sentence)
RunIdTests ==
  /\ ~probe.ran
  /\ probe' = [probe EXCEPT
                 !.ran = TRUE,
                 !.out = Then(validate_ID_sequence(probe.tree),
                              validate_token_ranges(probe.tree)).diags]
  /\ Untouched

NextIds == AppendIdRow \/ RunIdTests

SpecIds == InitIds /\ [][NextIds]_vars

\* the number of warn() calls with a rule id among the calls ds
Emitted(ds, testid) == Cardinality({i \in 1..Len(ds) : ds[i].testid = testid})

\* the words of the probed block are 1..N in row order
WordsInSequence ==
  WordIds(probe.tree) = [i \in 1..Len(WordIds(probe.tree)) |-> i]

\* C8: validate_ID_sequence emits no 'word-id-sequence' diagnostic when the word
\* IDs in row order are exactly 1..N and exactly one otherwise (a permutation
\* other than the identity, a gap or a repeat).
WordIdSequenceReported ==
  probe.ran =>
    Emitted(probe.out, "word-id-sequence") = IF WordsInSequence THEN 0 ELSE 1

\* the words 2, 1 were reported once
Witness_C8 ==
  /\ probe.ran
  /\ WordIds(probe.tree) = << 2, 1 >>
  /\ Emitted(probe.out, "word-id-sequence") = 1

\* the rows of the probed block that are multiword ranges
RangeRows == {i \in 1..Len(probe.tree) : is_multiword_token(probe.tree[i])}

RangeBeg(i) == interval_beg(probe.tree[i].id)
RangeEnd(i) == interval_end(probe.tree[i].id)

\* the number of words of the probed block
NWords == Len(WordIds(probe.tree))

\* the range row i comes before its first word: no earlier row is a word b or later
RangePrecedes(i) ==
  \A j \in 1..(i - 1) : is_word(probe.tree[j]) => int(probe.tree[j].id) < RangeBeg(i)

\* the range rows i and j share an index
RangesShare(i, j) ==
  (RangeBeg(i)..RangeEnd(i)) \cap (RangeBeg(j)..RangeEnd(j)) # {}

RangeDisjoint(i) == \A j \in RangeRows \ {i} : ~RangesShare(i, j)

RangeRuleIds ==
  {"invalid-word-interval", "misplaced-word-interval", "reversed-word-interval",
   "word-interval-out", "overlapping-word-intervals"}

NoRangeDiagnostic == \A id \in RangeRuleIds : Emitted(probe.out, id) = 0

\* C9 as stated: the level 1 range tests emit no diagnostic if and only if
\* every range b-e has b<e, b>=1, e<=N, comes before its first word and shares
\* no index with another range, and each clause that is violated produces a
\* diagnostic with its own rule id.
RangeClausesEachReported ==
  (probe.ran /\ RangeRows # {}) =>
    /\ NoRangeDiagnostic
         <=> \A i \in RangeRows :
               /\ RangeBeg(i) < RangeEnd(i) /\ RangeBeg(i) >= 1 /\ RangeEnd(i) <= NWords
               /\ RangePrecedes(i) /\ RangeDisjoint(i)
    /\ \A i \in RangeRows :
         /\ ~(RangeBeg(i) < RangeEnd(i)) => Emitted(probe.out, "reversed-word-interval") > 0
         /\ ~(RangeBeg(i) >= 1 /\ RangeEnd(i) <= NWords)
              => Emitted(probe.out, "word-interval-out") > 0
         /\ ~RangePrecedes(i) => Emitted(probe.out, "misplaced-word-interval") > 0
         /\ ~RangeDisjoint(i) => Emitted(probe.out, "overlapping-word-intervals") > 0

\* C9: in a block whose words are 1..N in row order, the level 1 range tests
\* emit no range diagnostic if and only if every range b-e has b<e, e<=N, comes
\* before its first word and shares no index with another range; a range with
\* b>=e is reported as 'reversed-word-interval' and a range that does not come
\* before its first word as 'misplaced-word-interval'; the end of a range
\* beyond N is reported as 'word-interval-out' when the range has b<=e and is
\* not misplaced, and not when every range beyond N has e<b or is misplaced;
\* an index shared by two ranges is reported as 'overlapping-word-intervals'
\* when both have b<e.
RangeFirstFaultReported ==
  (probe.ran /\ RangeRows # {} /\ WordsInSequence) =>
    /\ NoRangeDiagnostic
         <=> \A i \in RangeRows :
               /\ RangeBeg(i) < RangeEnd(i) /\ RangeEnd(i) <= NWords
               /\ RangePrecedes(i) /\ RangeDisjoint(i)
    /\ \A i \in RangeRows :
         /\ ~(RangeBeg(i) < RangeEnd(i)) => Emitted(probe.out, "reversed-word-interval") > 0
         /\ ~RangePrecedes(i) => Emitted(probe.out, "misplaced-word-interval") > 0
         /\ (RangeBeg(i) <= RangeEnd(i) /\ RangePrecedes(i) /\ RangeEnd(i) > NWords)
              => Emitted(probe.out, "word-interval-out") > 0
         /\ (RangeBeg(i) < RangeEnd(i)
             /\ \E j \in RangeRows \ {i} : RangeBeg(j) < RangeEnd(j) /\ RangesShare(i, j))
              => Emitted(probe.out, "overlapping-word-intervals") > 0
    /\ (\A i \in RangeRows :
          RangeEnd(i) < RangeBeg(i) \/ ~RangePrecedes(i) \/ RangeEnd(i) <= NWords)
         => Emitted(probe.out, "word-interval-out") = 0

\* the range 3-2 before the only word: reversed and beyond the last word, and
\* reported as reversed only
Witness_C9 ==
  /\ probe.ran /\ WordsInSequence /\ NWords = 1
  /\ \E i \in RangeRows : RangeBeg(i) = 3 /\ RangeEnd(i) = 2
  /\ Emitted(probe.out, "reversed-word-interval") > 0
  /\ Emitted(probe.out, "word-interval-out") = 0

----------------------------------------------------------------------------
(* validate_deps run on its own: `probe` holds a block of word rows 1, 2, ...
   whose DEPS columns are built item by item. *)

\* the items of a DEPS column: head:relation pairs, and an item without ":"
DepsItems ==
  { << h, d >> : h \in {<< "2" >>, << "1", "0" >>}, d \in {"acl", "dep"} }
    \cup { << "foo" >> }

InitDeps ==
  /\ args = ProbeArgs
  /\ Started
  /\ probe = [name |-> "deps", tree |-> << >>, ran |-> FALSE, out |-> << >>]

\* the next row of the block: the next word, or an empty node after the first word
DepsRowIds(tree) ==
  { str(Len(WordIds(tree)) + 1) } \cup (IF tree = << >> THEN {} ELSE { IdEmpty })

AppendDepsRow ==
  \E id \in DepsRowIds(probe.tree) :
    /\ ~probe.ran
    /\ Len(probe.tree) < MaxDepRows
    /\ probe' = [probe EXCEPT
                   !.tree = Append(@, Cols(id, COLCOUNT, "NOUN", Zero, "root", << >>))]
    /\ Untouched

AppendDepsItem ==
  \E item \in DepsItems :
    /\ ~probe.ran
    /\ probe.tree # << >>
    /\ Len(Last(probe.tree).deps) < MaxDeps
    /\ probe' = [probe EXCEPT !.tree[Len(probe.tree)].deps = Append(@, item)]
    /\ Untouched

\* validate_deps(sentence), the sentence starting at line 1
RunDepsTest ==
  /\ ~probe.ran
  /\ probe' = [probe EXCEPT !.ran = TRUE, !.out = validate_deps(probe.tree, 1).diags]
  /\ Untouched

NextDeps == AppendDepsRow \/ AppendDepsItem \/ RunDepsTest

SpecDeps == InitDeps /\ [][NextDeps]_vars

\* every item of a DEPS value is a head:relation pair
DepsParsed(deps) == \A k \in 1..Len(deps) : Len(deps[k]) = 2

\* (numeric head, relation) of x comes before that of y
PairBefore(x, y) ==
  \/ FloatLess(float(x[1]), float(y[1]))
  \/ FloatEq(float(x[1]), float(y[1])) /\ StrLess(x[2], y[2])

\* sorted by (numeric head, relation) without duplicate pairs
DepsSorted(deps) ==
  DepsParsed(deps) /\ \A k \in 1..(Len(deps) - 1) : PairBefore(deps[k], deps[k + 1])

\* deps with the entries i and j swapped
Swap(deps, i, j) ==
  [k \in 1..Len(deps) |-> IF k = i THEN deps[j] ELSE IF k = j THEN deps[i] ELSE deps[k]]

\* deps is a sorted list in which two entries with different heads were swapped
DepsSwapped(deps) ==
  /\ DepsParsed(deps)
  /\ \E i, j \in 1..Len(deps) :
       i < j /\ deps[i][1] # deps[j][1] /\ DepsSorted(Swap(deps, i, j))

\* deps without its entry k
Without(deps, k) == SubSeq(deps, 1, k - 1) \o SubSeq(deps, k + 1, Len(deps))

\* deps is a sorted list in which one pair was duplicated
DepsDuplicated(deps) ==
  /\ DepsParsed(deps)
  /\ \E k \in 1..(Len(deps) - 1) : deps[k] = deps[k + 1] /\ DepsSorted(Without(deps, k))

\* the number of warn() calls about the row of line i with a rule id
EmittedAt(i, testid) ==
  Cardinality({k \in 1..Len(probe.out) :
                 probe.out[k].nodelineno = i /\ probe.out[k].testid = testid})

\* C10: for every word or empty-node row, validate_deps emits no DEPS-order diagnostic when
\* the DEPS list is sorted by (numeric head, relation) without duplicate pairs,
\* exactly one 'unsorted-deps' when two entries with different heads of such a
\* list are swapped, and exactly one 'repeated-deps' when one pair of such a
\* list is duplicated.
DepsOrderReported ==
  probe.ran =>
    \A i \in 1..Len(probe.tree) :
      LET deps == probe.tree[i].deps
      IN /\ DepsSorted(deps)
              => \A id \in {"unsorted-deps", "unsorted-deps-2", "repeated-deps"} :
                   EmittedAt(i, id) = 0
         /\ DepsSwapped(deps) => EmittedAt(i, "unsorted-deps") = 1
         /\ DepsDuplicated(deps) => EmittedAt(i, "repeated-deps") = 1

\* the same for the rows that no row with an unparsable DEPS precedes
DepsOrderReportedUntilUnparsable ==
  probe.ran =>
    \A i \in 1..Len(probe.tree) :
      LET deps == probe.tree[i].deps
      IN (\A j \in 1..(i - 1) : DepsParsed(probe.tree[j].deps))
           => /\ DepsSorted(deps)
                   => \A id \in {"unsorted-deps", "unsorted-deps-2", "repeated-deps"} :
                        EmittedAt(i, id) = 0
              /\ DepsSwapped(deps) => EmittedAt(i, "unsorted-deps") = 1
              /\ DepsDuplicated(deps) => EmittedAt(i, "repeated-deps") = 1

----------------------------------------------------------------------------
(* Runs of the whole validator over longer streams of plain lines: a word row
   that is a sentence of its own, the comment lines, blank lines. *)

PlainRows == { Cols(One, COLCOUNT, "NOUN", Zero, "root", << >>) }

SentIdRun ==
  [name |-> "sent_id", budget |-> MaxPlainLines, rows |-> PlainRows,
   comments |-> CommentLines]

InitSentIds ==
  /\ args \in [level : Levels, quiet : {FALSE}, max_err : {0}, single_root : {TRUE},
               check_tree_text : {FALSE}, lang : {"ud"}, ninput : 1..MaxStreams]
  /\ Started
  /\ probe = SentIdRun

SpecSentIds == InitSentIds /\ [][Next]_vars

\* the block carries exactly one well-formed sent_id comment
OneSentId(b) == Len(sentid_matched(b.comments)) = 1

SentIdOf(b) == sentid_matched(b.comments)[1].sid

\* the 'non-unique-sent-id' calls made while block k of the run was validated
NonUniqueCalls(k) ==
  Cardinality({i \in 1..Len(log) :
                 /\ log[i].tree = k
                 /\ log[i].d.by = "validate_sent_id"
                 /\ log[i].d.testid = "non-unique-sent-id"})

\* an earlier block of the run, of this stream or of another, carries exactly
\* one well-formed sent_id comment with the value of block k
SentIdSeenBefore(k) ==
  \E j \in 1..(k - 1) :
    OneSentId(validated[j]) /\ SentIdOf(validated[j]) = SentIdOf(validated[k])

SentIdReports ==
  args.level > 1 =>
    \A k \in 1..Len(validated) :
      NonUniqueCalls(k) =
        IF OneSentId(validated[k]) /\ SentIdSeenBefore(k) THEN 1 ELSE 0

\* C11: the set of known sentence ids is shared by all sentences of all streams
\* of a run and only grows; at level 2, of the blocks that carry exactly one
\* well-formed sent_id comment with the same value, the first one validated
\* gets no 'non-unique-sent-id' and every later one exactly one, whether it is
\* in the same stream or in a later one.
SentIdsSharedByRun ==
  /\ [](SentIdReports)
  /\ [][known_sent_ids \subseteq known_sent_ids']_vars

\* three blocks with the sent_id "a": two in the first stream, one in the second
Witness_C11 ==
  /\ args.level > 1
  /\ Len(validated) = 3
  /\ \A k \in 1..3 : OneSentId(validated[k]) /\ SentIdOf(validated[k]) = "a"
  /\ validated[1].stream = 1 /\ validated[2].stream = 1 /\ validated[3].stream = 2
  /\ NonUniqueCalls(1) = 0 /\ NonUniqueCalls(2) = 1 /\ NonUniqueCalls(3) = 1

----------------------------------------------------------------------------
(* build_tree run on its own: `probe` holds a block of up to MaxTreeRows rows
   (words numbered in sequence or numbered 1 again, a multiword range, an
   empty node) with HEADs 0..MaxTreeRows, args the single-root policy. *)

TreeHeads == { str(h) : h \in 0..MaxTreeRows }

\* the rows that can follow the rows of tree
TreeRowsAfter(tree) ==
  { Cols(id, COLCOUNT, "NOUN", head, "dep", << >>) :
      id \in { str(Len(WordIds(tree)) + 1), One }, head \in TreeHeads }
    \cup { Cols(IdMwt, COLCOUNT, "_", Underscore, "_", << >>),
           Cols(IdEmpty, COLCOUNT, "NOUN", Underscore, "_", << >>) }

InitTree ==
  /\ args \in { [ProbeArgs EXCEPT !.single_root = b] : b \in BOOLEAN }
  /\ Started
  /\ probe = [name |-> "tree", tree |-> << >>, ran |-> FALSE, out |-> << >>]

AppendTreeRow ==
  \E cols \in TreeRowsAfter(probe.tree) :
    /\ ~probe.ran
    /\ Len(probe.tree) < MaxTreeRows
    /\ probe' = [probe EXCEPT !.tree = Append(@, cols)]
    /\ Untouched

\* build_tree(sentence), the sentence starting at line 1
RunBuildTree ==
  /\ ~probe.ran
  /\ probe' = [probe EXCEPT !.ran = TRUE, !.out = build_tree(probe.tree, 1, args)]
  /\ Untouched

NextTree == AppendTreeRow \/ RunBuildTree

SpecTree == InitTree /\ [][NextTree]_vars

\* the word rows of the probed block and their HEADs
Words == SelectSeq(probe.tree, is_word)
HeadOf(i) == int(Words[i].head)
WordsWithHead(h) == {i \in 1..Len(Words) : HeadOf(i) = h}

\* the word rows of the probed block are numbered 1..N in row order
WordRowsInSequence == \A i \in 1..Len(Words) : int(Words[i].id) = i

\* word i reaches the virtual root 0 along the HEADs in at most k steps
RECURSIVE ReachesRoot(_, _)
ReachesRoot(i, k) ==
  IF i = 0 THEN TRUE
  ELSE IF k = 0 \/ i \notin 1..Len(Words) THEN FALSE
  ELSE ReachesRoot(HeadOf(i), k - 1)

Unreachable == {i \in 1..Len(Words) : ~ReachesRoot(i, Len(Words))}

\* the HEADs form a tree with a single child of the virtual root
HeadsFormTree ==
  /\ Words # << >>
  /\ WordRowsInSequence
  /\ Cardinality(WordsWithHead(0)) = 1
  /\ Unreachable = {}

\* C12: for a block whose words are 1..N and whose HEADs form a tree with a
\* single child of the virtual root, build_tree emits nothing and returns a
\* tree in which children[h] is the set of the words with HEAD h for every h
\* in 0..N and the projection of 0 holds every word 1..N.
TreeBuiltFromHeads ==
  (probe.ran /\ HeadsFormTree) =>
    /\ probe.out.diags = << >>
    /\ probe.out.exc = ""
    /\ ~probe.out.tree.none
    /\ \A h \in 0..Len(Words) : probe.out.tree.children[h] = WordsWithHead(h)
    /\ (1..Len(Words)) \subseteq
         get_projection(0, probe.out.tree.children, Len(probe.tree) + 2).set

\* the HEADs 0,1,1 of three words, with a tree returned
Witness_C12 ==
  /\ probe.ran
  /\ Len(Words) = 3 /\ WordRowsInSequence
  /\ HeadOf(1) = 0 /\ HeadOf(2) = 1 /\ HeadOf(3) = 1
  /\ ~probe.out.tree.none
  /\ probe.out.tree.children[1] = {2, 3}

\* some word of the probed block has its own ID as HEAD
SomeSelfLoop == \E i \in 1..Len(Words) : HeadOf(i) = int(Words[i].id)

\* every HEAD is an index of the list `children`, which has one entry per row
\* of the block and one for the virtual root
HeadsWithinRows == \A i \in 1..Len(Words) : HeadOf(i) <= Len(probe.tree)

PassesLoopAndRootCount ==
  /\ WordRowsInSequence
  /\ HeadsWithinRows
  /\ ~SomeSelfLoop
  /\ ~(args.single_root /\ Cardinality(WordsWithHead(0)) > 1)

\* C15: for a block of N words that passes the self-loop and the root-count
\* tests, build_tree emits 'non-tree' and returns no tree if and only if some
\* word of 1..N, N included, is not reachable from the virtual root 0, and the
\* diagnostic names all unreachable words in ascending order.
UnreachableWordsReported ==
  (probe.ran /\ PassesLoopAndRootCount) =>
    /\ probe.out.exc = ""
    /\ IF Unreachable # {}
         THEN /\ Emitted(probe.out.diags, "non-tree") = 1
              /\ probe.out.tree.none
              /\ probe.out.listed = sorted(Unreachable)
         ELSE /\ Emitted(probe.out.diags, "non-tree") = 0
              /\ ~probe.out.tree.none

\* the same with the last word left out of the words tested and named
UnreachableWordsButLastReported ==
  (probe.ran /\ PassesLoopAndRootCount) =>
    /\ probe.out.exc = ""
    /\ IF Unreachable \ {Len(Words)} # {}
         THEN /\ Emitted(probe.out.diags, "non-tree") = 1
              /\ probe.out.tree.none
              /\ probe.out.listed = sorted(Unreachable \ {Len(Words)})
         ELSE /\ Emitted(probe.out.diags, "non-tree") = 0
              /\ ~probe.out.tree.none

\* the projection of the virtual root in the tree build_tree returned
ProjectionOfRoot ==
  get_projection(0, probe.out.tree.children, Len(probe.tree) + 2).set

\* C16: every tree that build_tree returns under the single-root policy, for a
\* block with words 1..N (N > 0) and any other rows and HEADs, has exactly one
\* child of the virtual root 0, no word whose HEAD is its own ID, and every
\* word 1..N reachable from 0.
ReturnedTreeWellFormed ==
  (probe.ran /\ args.single_root /\ ~probe.out.tree.none
     /\ Words # << >> /\ WordRowsInSequence) =>
    /\ Cardinality(probe.out.tree.children[0]) = 1
    /\ ~SomeSelfLoop
    /\ (1..Len(Words)) \subseteq ProjectionOfRoot

\* the same for the words before the last one
ReturnedTreeWellFormedButLast ==
  (probe.ran /\ args.single_root /\ ~probe.out.tree.none
     /\ Words # << >> /\ WordRowsInSequence) =>
    /\ Cardinality(probe.out.tree.children[0]) <= 1
    /\ ~SomeSelfLoop
    /\ (1..(Len(Words) - 1)) \subseteq ProjectionOfRoot

----------------------------------------------------------------------------
(* Runs at levels 3 and 5: sentences whose rows carry basic trees with a
   self-loop or a misplaced root relation, enhanced relations, empty nodes
   and an auxiliary with a lemma. *)

MaxAnnotLines == 3

Two == << "2" >>

AnnotRows ==
  { Cols(One, COLCOUNT, "NOUN", Zero, "root", << >>),
    \* DEPREL root under a word, an auxiliary that has a lemma, and an enhanced
    \* orphan relation
    [Cols(Two, COLCOUNT, "AUX", One, "root", << << One, "orphan" >> >>) EXCEPT !.lemma = "be"],
    \* HEAD 0 with another relation
    Cols(One, COLCOUNT, "NOUN", Zero, "dep", << >>),
    \* a word that is its own head, with an enhanced orphan relation
    Cols(One, COLCOUNT, "NOUN", One, "dep", << << Zero, "orphan" >> >>),
    \* an empty node
    Cols(IdEmpty, COLCOUNT, "_", Underscore, "_", << << Zero, "root" >> >>),
    \* an enhanced head that is not a row of the sentence
    Cols(One, COLCOUNT, "NOUN", Zero, "root", << << Zero, "root" >>, << << "7" >>, "dep" >> >>) }

AnnotRun ==
  [name |-> "annotation", budget |-> MaxAnnotLines, rows |-> AnnotRows,
   comments |-> {[sid |-> "", prefix |-> FALSE]}]

AnnotLevels == {3, 5}

InitAnnot ==
  /\ args \in [level : AnnotLevels, quiet : {FALSE}, max_err : {0}, single_root : {TRUE},
               check_tree_text : {FALSE}, lang : {"ud"}, ninput : 1..MaxStreams]
  /\ Started
  /\ probe = AnnotRun

SpecAnnot == InitAnnot /\ [][Next]_vars

\* the calls of warn() with this test id made by `by` while block k of the run
\* was validated
BlockCalls(k, by, testid) ==
  Cardinality({i \in 1..Len(log) :
                 log[i].tree = k /\ log[i].d.by = by /\ log[i].d.testid = testid})

BasicTreeTests ==
  {"validate_upos_vs_deprel", "validate_left_to_right_relations", "validate_single_subject",
   "validate_orphan", "validate_functional_leaves", "validate_fixed_span",
   "validate_goeswith_span", "validate_projective_punctuation"}

\* the level 3 diagnostics of block k: those of the tests on the basic tree
\* and those of the test on the enhanced graph
BasicTreeEntries(k) ==
  {i \in 1..Len(log) : log[i].tree = k /\ log[i].d.by \in BasicTreeTests}

EnhancedEntries(k) ==
  {i \in 1..Len(log) : log[i].tree = k /\ log[i].d.by = "validate_enhanced_annotation"}

Called(k, f) == \E c \in 1..Len(validated[k].calls) : validated[k].calls[c] = f

\* some word row of the block has HEAD equal to its own ID
SelfLoop(b) ==
  \E i \in 1..Len(b.lines) :
    /\ is_word(b.lines[i]) /\ HEAD < b.lines[i].n /\ CanInt(b.lines[i].head)
    /\ int(b.lines[i].head) = int(b.lines[i].id)

WordRowsOf(b) == {i \in 1..Len(b.lines) : is_word(b.lines[i])}

TenColumns(b) == \A i \in WordRowsOf(b) : b.lines[i].n = COLCOUNT

RootRelationUnderWord(b) ==
  {i \in WordRowsOf(b) : b.lines[i].head # Zero /\ b.lines[i].deprel = "root"}

OtherRelationUnderRoot(b) ==
  {i \in WordRowsOf(b) : b.lines[i].head = Zero /\ b.lines[i].deprel # "root"}

\* the words of the block are 1..N in order
WordsNumbered(b) ==
  \A i \in WordRowsOf(b) :
    int(b.lines[i].id) = Cardinality({j \in WordRowsOf(b) : j <= i})

\* the row of word w, and the HEAD of word w as a number
RowOfWord(b, w) == CHOOSE i \in WordRowsOf(b) : int(b.lines[i].id) = w
HeadOfWord(b, w) == int(b.lines[RowOfWord(b, w)].head)

RECURSIVE WordReachesRoot(_, _, _)
WordReachesRoot(b, w, fuel) ==
  \/ HeadOfWord(b, w) = 0
  \/ fuel > 0 /\ WordReachesRoot(b, HeadOfWord(b, w), fuel - 1)

\* apart from the relation names, the basic tree of the block is valid: the
\* words are 1..N, every HEAD is one of 0..N and not the word itself, exactly
\* one word has HEAD 0 and every word reaches 0
TreeOtherwiseValid(b) ==
  LET N == Cardinality(WordRowsOf(b))
  IN /\ N > 0
     /\ TenColumns(b)
     /\ WordsNumbered(b)
     /\ \A i \in WordRowsOf(b) :
          CanInt(b.lines[i].head) /\ int(b.lines[i].head) \in 0..N
          /\ int(b.lines[i].head) # int(b.lines[i].id)
     /\ Cardinality({w \in 1..N : HeadOfWord(b, w) = 0}) = 1
     /\ \A w \in 1..N : WordReachesRoot(b, w, N)

\* C18: at level 2 and above, for the word rows with all 10 columns,
\* validate_root emits 'root-is-not-0' exactly once for each row whose HEAD is
\* not "0" and whose DEPREL is "root" and for no other row, and '0-is-not-root'
\* exactly once for each row whose HEAD is "0" and whose DEPREL is not "root"
\* and for no other row; these diagnostics do not keep the tree from being
\* built: when the tree of the sentence is otherwise valid, validate_annotation
\* is called at level 3 and above and validate_lspec_annotation at level 5.
RootRelationReported ==
  \A k \in 1..Len(validated) :
    args.level > 1 /\ TenColumns(validated[k]) =>
      /\ BlockCalls(k, "validate_root", "root-is-not-0")
           = Cardinality(RootRelationUnderWord(validated[k]))
      /\ BlockCalls(k, "validate_root", "0-is-not-root")
           = Cardinality(OtherRelationUnderRoot(validated[k]))
      /\ TreeOtherwiseValid(validated[k]) =>
           /\ args.level > 2 => Called(k, "validate_annotation")
           /\ args.level > 4 => Called(k, "validate_lspec_annotation")

\* a sentence with DEPREL root under word 1 whose tree is built and tested at
\* level 5, and a sentence with another relation under HEAD 0 likewise
Witness_C18 ==
  /\ args.level = 5
  /\ \E k \in 1..Len(validated) :
       /\ BlockCalls(k, "validate_root", "root-is-not-0") = 1
       /\ Called(k, "validate_annotation") /\ Called(k, "validate_lspec_annotation")
       /\ BlockCalls(k, "validate_auxiliary_verbs", "aux-lemma") = 1
  /\ \E k \in 1..Len(validated) :
       /\ BlockCalls(k, "validate_root", "0-is-not-root") = 1
       /\ Called(k, "validate_annotation") /\ Called(k, "validate_lspec_annotation")

\* the rows of a block that are nodes of its enhanced graph: for each ID the
\* last row that carries it, multiword ranges left out
GraphNodeRows(b) ==
  {i \in 1..Len(b.lines) :
     /\ ~is_multiword_token(b.lines[i])
     /\ \A j \in (i + 1)..Len(b.lines) : b.lines[j].id # b.lines[i].id}

HasEnhancedOrphan(cols) ==
  \E j \in 1..Len(cols.deps) : lspec2ud(cols.deps[j][2]) = "orphan"

\* the line of row i of a block
LineOfRow(b, i) == b.sentence_line - 1 + i

\* the 'eorphan-after-empty-node' calls for the node on this line of block k
OrphanCalls(k, line) ==
  Cardinality({i \in 1..Len(log) :
                 /\ log[i].tree = k
                 /\ log[i].d.by = "validate_enhanced_annotation"
                 /\ log[i].d.testid = "eorphan-after-empty-node"
                 /\ log[i].d.nodelineno = line})

\* the enhanced graph of block k was validated after the empty-node marker had
\* been set
ValidatedAfterEmptyNode(k) ==
  Called(k, "validate_enhanced_annotation") /\ validated[k].markers.empty # 0

OrphansAfterEmptyNodeReported ==
  \A k \in 1..Len(validated) :
    ValidatedAfterEmptyNode(k) =>
      \A i \in GraphNodeRows(validated[k]) :
        HasEnhancedOrphan(validated[k].lines[i]) => OrphanCalls(k, LineOfRow(validated[k], i)) = 1

EmptyNodeAfterOrphanCalls ==
  Cardinality({i \in 1..Len(log) :
                 /\ log[i].d.by = "validate_enhanced_annotation"
                 /\ log[i].d.testid = "empty-node-after-eorphan"})

MarkersKept ==
  /\ line_of_first_empty_node # 0 => line_of_first_empty_node' = line_of_first_empty_node
  /\ line_of_first_enhanced_orphan # 0
       => line_of_first_enhanced_orphan' = line_of_first_enhanced_orphan

\* C19: the two markers, once set, are never reset or changed, across
\* sentences and across streams; once the empty-node marker is set, every node
\* with an 'orphan' enhanced relation in any graph validated later in the run
\* yields 'eorphan-after-empty-node'; 'empty-node-after-eorphan' is emitted at
\* most once in the whole run.
MarkersSharedByRun ==
  /\ [][MarkersKept]_vars
  /\ [](OrphansAfterEmptyNodeReported)
  /\ [](EmptyNodeAfterOrphanCalls <= 1)

\* every key of the enhanced graph of the block is the ID of one of its rows
EveryKeyHasRow(b) ==
  \A i \in 1..Len(b.lines) :
    is_multiword_token(b.lines[i])
    \/ \A j \in 1..Len(b.lines[i].deps) :
         b.lines[i].deps[j][1] = Zero
         \/ \E r \in 1..Len(b.lines) : b.lines[r].id = b.lines[i].deps[j][1]

\* the same for the graphs in which every head is a row of the sentence
MarkersSharedWhereKeysHaveRows ==
  /\ [][MarkersKept]_vars
  /\ [](\A k \in 1..Len(validated) :
          ValidatedAfterEmptyNode(k) /\ EveryKeyHasRow(validated[k]) =>
            \A i \in GraphNodeRows(validated[k]) :
              HasEnhancedOrphan(validated[k].lines[i])
                => OrphanCalls(k, LineOfRow(validated[k], i)) = 1)
  /\ [](EmptyNodeAfterOrphanCalls <= 1)

----------------------------------------------------------------------------
(* The cap on the diagnostics printed per category. *)

Categories == {log[i].d.testclass : i \in 1..Len(log)}

\* the rule ids of the warn() calls of a category, in the order of the calls
RecordedIds(testclass) ==
  LET calls == SelectSeq(log, LAMBDA e : e.d.testclass = testclass)
  IN [i \in 1..Len(calls) |-> calls[i].d.testid]

\* the rule ids of the diagnostics of a category printed in full, in the order
\* of printing
PrintedIds(testclass) ==
  LET printed == SelectSeq(stderr, LAMBDA e : "testid" \in DOMAIN e /\ e.testclass = testclass)
  IN [i \in 1..Len(printed) |-> printed[i].testid]

FirstOf(seq, n) == SubSeq(seq, 1, IF n < Len(seq) THEN n ELSE Len(seq))

\* C20: when not in quiet mode and with a cap c > 0, in every category the
\* first c diagnostics raised are printed as diagnostic text and every later
\* one is suppressed; with c = 0 every diagnostic is printed.
CapOutputsFirstDiagnostics ==
  ~args.quiet =>
    \A t \in Categories :
      PrintedIds(t) = IF args.max_err > 0 THEN FirstOf(RecordedIds(t), args.max_err)
                      ELSE RecordedIds(t)

\* the notices that a category is suppressed from now on
SuppressedNotices(testclass) ==
  Cardinality({i \in 1..Len(stderr) :
                 "suppressing" \in DOMAIN stderr[i] /\ stderr[i].suppressing = testclass})

\* what the code does: the diagnostic number c of a category is replaced by
\* the notice, so c - 1 diagnostics are printed
CapOutputsAllButLast ==
  ~args.quiet =>
    \A t \in Categories :
      /\ PrintedIds(t) = IF args.max_err > 0 THEN FirstOf(RecordedIds(t), args.max_err - 1)
                         ELSE RecordedIds(t)
      /\ SuppressedNotices(t)
           = IF args.max_err > 0 /\ Len(RecordedIds(t)) >= args.max_err THEN 1 ELSE 0

----------------------------------------------------------------------------
(* validate_features on its own: every FEATS value of up to MaxFeats entries
   over the sample entries. *)

MaxFeats == 3

FeatSamples ==
  { << "C", "a", "s", "e", "=", "N", "o", "m" >>,
    << "C", "a", "s", "e", "2", "=", "G", "e", "n" >>,
    << "N", "u", "m", "b", "e", "r", "=", "S", "i", "n", "g" >>,
    << "N", "u", "m", "T", "y", "p", "e", "=", "C", "a", "r", "d" >>,
    << "N", "u", "m", "b", "e", "r", "=", "P", "l", "u", "r", ",", "S", "i", "n", "g" >>,
    << "F", "o", "o" >> }

FeatsRow(feats) == [Cols(One, COLCOUNT, "NOUN", Zero, "root", << >>) EXCEPT !.feats = feats]

InitFeats ==
  /\ args \in [level : {2, 4}, quiet : {FALSE}, max_err : {0}, single_root : {TRUE},
               check_tree_text : {FALSE}, lang : {"ud"}, ninput : {1}]
  /\ Started
  /\ probe = [name |-> "feats", tree |-> << >>, ran |-> FALSE, out |-> << >>]

\* one more entry at the end of the FEATS value
AppendFeature ==
  \E f \in FeatSamples :
    /\ ~probe.ran
    /\ Len(probe.tree) < MaxFeats
    /\ probe' = [probe EXCEPT !.tree = Append(@, f)]
    /\ Untouched

\* validate_features(cols, tag_sets, args)
RunValidateFeatures ==
  /\ ~probe.ran
  /\ probe' = [probe EXCEPT !.ran = TRUE,
                            !.out = validate_features(FeatsRow(probe.tree), args).diags]
  /\ Untouched

NextFeats == AppendFeature \/ RunValidateFeatures

SpecFeats == InitFeats /\ [][NextFeats]_vars

\* the attribute name of an entry, lowercased
AttributeName(f) == lower(IF IndexOf(f, "=") = 0 THEN f ELSE Before(f, IndexOf(f, "=")))

\* the entries are in case-insensitive ascending order of their attribute names
AttributesAscending(feats) ==
  \A i \in 1..(Len(feats) - 1) : str_less(AttributeName(feats[i]), AttributeName(feats[i + 1]))

\* every entry has the form Attribute=Value and no attribute name comes twice
FeatsOtherwiseSound(feats) ==
  /\ \A i \in 1..Len(feats) : IndexOf(feats[i], "=") > 0
  /\ \A i, j \in 1..Len(feats) : i # j => AttributeName(feats[i]) # AttributeName(feats[j])

UnsortedFeaturesCalls ==
  Cardinality({i \in 1..Len(probe.out) : probe.out[i].testid = "unsorted-features"})

\* C17: for every FEATS value other than "_" (here: with entries of the form
\* Attribute=Value and no attribute twice), validate_features emits exactly one
\* 'unsorted-features' diagnostic if the entries are not in case-insensitive
\* ascending order of their attribute names and none if they are, also when
\* one attribute name is a prefix of another followed by a digit.
FeatsOrderReported ==
  probe.ran /\ probe.tree # << >> /\ FeatsOtherwiseSound(probe.tree) =>
    UnsortedFeaturesCalls = IF AttributesAscending(probe.tree) THEN 0 ELSE 1

\* one attribute name is a prefix of another one of the value
SomeAttributePrefix(feats) ==
  \E i, j \in 1..Len(feats) :
    /\ i # j
    /\ Len(AttributeName(feats[i])) < Len(AttributeName(feats[j]))
    /\ SubSeq(AttributeName(feats[j]), 1, Len(AttributeName(feats[i]))) = AttributeName(feats[i])

\* the same for the values in which no attribute name is a prefix of another
FeatsOrderReportedWithoutPrefixes ==
  probe.ran /\ probe.tree # << >> /\ FeatsOtherwiseSound(probe.tree)
  /\ ~SomeAttributePrefix(probe.tree) =>
    UnsortedFeaturesCalls = IF AttributesAscending(probe.tree) THEN 0 ELSE 1

\* what the code compares: the whole lowercased entries
FeatsOrderReportedByEntry ==
  probe.ran /\ probe.tree # << >> =>
    UnsortedFeaturesCalls =
      IF \A i \in 1..(Len(probe.tree) - 1) :
           ~str_less(lower(probe.tree[i + 1]), lower(probe.tree[i]))
        THEN 0 ELSE 1

----------------------------------------------------------------------------
(* The node map of the enhanced graph. *)

\* the enhanced graph build_egraph returns for a block
GraphOf(b) == build_egraph(b.lines, b.sentence_line).egraph

\* the keys of a graph that hold no row: no "cols", "deps", "parents", "lineno"
KeysWithoutRow(g) == {id \in DOMAIN g.nodes : ~g.nodes[id].has_cols}

\* C21: every enhanced graph that build_egraph returns holds a row, a parsed
\* DEPS list, a parent set, a child set and a line number for every key of its
\* node map, also for the keys entered because a DEPS names them as a head, and
\* validate_enhanced_annotation reads the row of every node without failing.
EveryGraphKeyHoldsRow ==
  /\ \A k \in 1..Len(validated) :
       ~GraphOf(validated[k]).none => KeysWithoutRow(GraphOf(validated[k])) = {}
  /\ exc # "KeyError in validate_enhanced_annotation"

\* the same for the sentences in which every enhanced head is a row
EveryGraphKeyHoldsRowWhereHeadsAreRows ==
  /\ \A k \in 1..Len(validated) :
       ~GraphOf(validated[k]).none /\ EveryKeyHasRow(validated[k])
         => KeysWithoutRow(GraphOf(validated[k])) = {}
  /\ exc = "KeyError in validate_enhanced_annotation"
       => ~EveryKeyHasRow(validated[Len(validated)])

----------------------------------------------------------------------------
(* Runs at levels 2, 3 and 5 over sentences for which build_tree returns no
   tree: a word that is its own head, two words under the virtual root, a
   cycle apart from the root, a HEAD that is no number, a row without its
   last column. *)

MaxSkipLines == 3

Three == << "3" >>

SkipRows ==
  { Cols(One, COLCOUNT, "NOUN", Zero, "root", << >>),
    Cols(Two, COLCOUNT, "NOUN", One, "dep", << >>),
    Cols(Two, COLCOUNT, "NOUN", Zero, "root", << >>),
    Cols(Two, COLCOUNT, "NOUN", Two, "dep", << >>),
    Cols(Two, COLCOUNT, "NOUN", Three, "dep", << >>),
    Cols(Three, COLCOUNT, "NOUN", Two, "dep", << >>),
    Cols(Two, COLCOUNT, "NOUN", Underscore, "dep", << >>),
    Cols(Two, COLCOUNT - 1, "NOUN", One, "dep", << >>) }

SkipRun ==
  [name |-> "skip", budget |-> MaxSkipLines, rows |-> SkipRows,
   comments |-> {[sid |-> "", prefix |-> FALSE]}]

SkipLevels == {2, 3, 5}

InitSkip ==
  /\ args \in [level : SkipLevels, quiet : {FALSE}, max_err : {0}, single_root : {TRUE},
               check_tree_text : {FALSE}, lang : {"ud"}, ninput : 1..MaxStreams]
  /\ Started
  /\ probe = SkipRun

SpecSkip == InitSkip /\ [][Next]_vars

\* what build_tree does on a block
TreeOf(b) == build_tree(b.lines, b.sentence_line, args)

\* validate() went through block k without an exception
ValidatedWhole(k) == k < Len(validated) \/ exc = ""

\* the diagnostics emitted for block k after build_tree and build_egraph
DriverEntries(k) == {i \in 1..Len(log) : log[i].tree = k /\ log[i].d.by = "validate"}

\* C22: (as stated) when build_tree returns no tree for a sentence, the tests
\* of levels 3 and 5 on the tree are skipped and the driver emits no
\* diagnostic for the skip.
NoTreeSkippedSilently ==
  \A k \in 1..Len(validated) :
    args.level > 1 /\ ValidatedWhole(k) /\ TreeOf(validated[k]).tree.none =>
      /\ ~Called(k, "validate_annotation")
      /\ ~Called(k, "validate_lspec_annotation")
      /\ DriverEntries(k) = {}

\* C22: (amended) when build_tree returns no tree for a sentence, having
\* emitted at most one diagnostic of its own, the tests of levels 3 and 5 on
\* the tree are not called and emit nothing, and the driver reports the skip
\* with exactly one 'skipped-corrupt-tree' diagnostic, at every level above 1;
\* when a tree is returned the driver emits no such diagnostic.
NoTreeSkippedWithNotice ==
  \A k \in 1..Len(validated) :
    args.level > 1 /\ ValidatedWhole(k) =>
      IF TreeOf(validated[k]).tree.none
        THEN /\ Len(TreeOf(validated[k]).diags) <= 1
             /\ BlockCalls(k, "build_tree", "head-self-loop")
                  + BlockCalls(k, "build_tree", "multiple-roots")
                  + BlockCalls(k, "build_tree", "non-tree") = Len(TreeOf(validated[k]).diags)
             /\ ~Called(k, "validate_annotation")
             /\ ~Called(k, "validate_lspec_annotation")
             /\ BasicTreeEntries(k) = {}
             /\ BlockCalls(k, "validate", "skipped-corrupt-tree") = 1
        ELSE /\ DriverEntries(k) = {}
             /\ args.level > 2 => Called(k, "validate_annotation")

\* a run at level 5 that skipped a sentence with a cycle apart from the root
Witness_C22 ==
  /\ args.level = 5
  /\ \E k \in 1..Len(validated) :
       /\ ValidatedWhole(k)
       /\ TreeOf(validated[k]).tree.none
       /\ BlockCalls(k, "build_tree", "non-tree") = 1
       /\ BlockCalls(k, "validate", "skipped-corrupt-tree") = 1
       /\ validated[k].calls = << >>

\* skipped sentences of the other kinds: two roots, a HEAD that is no number,
\* a row without its last column
Skipped_two_roots ==
  \E k \in 1..Len(validated) :
    BlockCalls(k, "build_tree", "multiple-roots") = 1
    /\ BlockCalls(k, "validate", "skipped-corrupt-tree") = 1

Skipped_unparsable_head ==
  \E k \in 1..Len(validated) :
    /\ \E i \in 1..Len(validated[k].lines) : validated[k].lines[i].head = Underscore
    /\ Len(TreeOf(validated[k]).diags) = 0
    /\ BlockCalls(k, "validate", "skipped-corrupt-tree") = 1

Skipped_short_row ==
  \E k \in 1..Len(validated) :
    /\ \E i \in 1..Len(validated[k].lines) : validated[k].lines[i].n < COLCOUNT
    /\ Len(TreeOf(validated[k]).diags) = 0
    /\ BlockCalls(k, "validate", "skipped-corrupt-tree") = 1

----------------------------------------------------------------------------
(* The recursive descent of get_projection, on the blocks of SpecTree in
   which a word ID may occur again. *)

\* the children map build_tree has built when its loop ends
ChildrenOfRows ==
  [h \in 0..Len(probe.tree) |-> {int(Words[i].id) : i \in WordsWithHead(h)}]

\* the indices reachable from the set S through a children map
RECURSIVE Closure(_, _)
Closure(S, children) ==
  LET T == S \cup UNION {children[i] : i \in S \cap DOMAIN children}
  IN IF T = S THEN S ELSE Closure(T, children)

\* index n lies on a cycle of length two or more of the children map
OnCycle(n, children) == n \in Closure(children[n] \ {n}, children)

\* build_tree gets as far as calling get_projection
ProjectionCalled ==
  /\ probe.ran
  /\ HeadsWithinRows
  /\ ~SomeSelfLoop
  /\ ~(args.single_root /\ Cardinality(ChildrenOfRows[0]) > 1)

\* C23: for every block, also one in which a word ID occurs again so that a
\* node is recorded as a child of two heads, get_projection(0, tree) returns,
\* and returns exactly the set of the indices reachable from 0 through the
\* children map.
ProjectionTerminatesExact ==
  ProjectionCalled =>
    /\ probe.out.exc = ""
    /\ get_projection(0, ChildrenOfRows, Len(probe.tree) + 2).set
         = Closure({0}, ChildrenOfRows)

\* the same where no index reachable from 0 lies on a cycle; where one does,
\* the descent does not end and build_tree is left by RecursionError
ProjectionExactWithoutReachableCycle ==
  ProjectionCalled =>
    IF \E n \in Closure({0}, ChildrenOfRows) : OnCycle(n, ChildrenOfRows)
      THEN probe.out.exc = "RecursionError in get_projection"
      ELSE /\ probe.out.exc = ""
           /\ get_projection(0, ChildrenOfRows, Len(probe.tree) + 2).set
                = Closure({0}, ChildrenOfRows)

\* a node under two heads without a cycle: words 1, 2, 1 with HEADs 0, 1, 0
TwoHeadsWithoutCycle ==
  /\ ProjectionCalled
  /\ Len(Words) = 3 /\ ChildrenOfRows[0] = {1} /\ ChildrenOfRows[1] = {2}
  /\ ChildrenOfRows[2] = {}
  /\ probe.out.exc = ""

----------------------------------------------------------------------------
(* build_egraph run on its own: `probe` holds a block of up to MaxGraphRows
   rows (words 1, 2, ..., the empty node 1.1, the range 1-2) whose DEPS
   columns are built item by item from the heads 0, 1 and 2. *)

MaxGraphRows == 3
MaxGraphDeps == 2

GraphHeads == { Zero, One, Two }

\* the next row of the block: the next word, the range before the first row,
\* the empty node after it
GraphRowIds(tree) ==
  { str(Len(WordIds(tree)) + 1) } \cup (IF tree = << >> THEN { IdMwt } ELSE { IdEmpty })

InitGraph ==
  /\ args = ProbeArgs
  /\ Started
  /\ probe = [name |-> "egraph", tree |-> << >>, ran |-> FALSE, out |-> << >>]

AppendGraphRow ==
  \E id \in GraphRowIds(probe.tree) :
    /\ ~probe.ran
    /\ Len(probe.tree) < MaxGraphRows
    /\ probe' = [probe EXCEPT
                   !.tree = Append(@, Cols(id, COLCOUNT, "NOUN", Zero, "root", << >>))]
    /\ Untouched

AppendGraphItem ==
  \E h \in GraphHeads :
    /\ ~probe.ran
    /\ probe.tree # << >>
    /\ Len(Last(probe.tree).deps) < MaxGraphDeps
    /\ probe' = [probe EXCEPT !.tree[Len(probe.tree)].deps = Append(@, << h, "dep" >>)]
    /\ Untouched

\* build_egraph(sentence), the sentence starting at line 1
RunBuildEgraph ==
  /\ ~probe.ran
  /\ probe' = [probe EXCEPT !.ran = TRUE, !.out = build_egraph(probe.tree, 1)]
  /\ Untouched

NextGraph == AppendGraphRow \/ AppendGraphItem \/ RunBuildEgraph

SpecGraph == InitGraph /\ [][NextGraph]_vars

\* the rows of the probed block that are nodes of the graph, their ids, and
\* the nodes that name k as a head
GraphRows == SelectSeq(probe.tree, LAMBDA cols : ~is_multiword_token(cols))
GraphIds == {GraphRows[i].id : i \in 1..Len(GraphRows)}
NamedAsHead(k) ==
  {GraphRows[i].id : i \in {r \in 1..Len(GraphRows) :
                              \E j \in 1..Len(GraphRows[r].deps) : GraphRows[r].deps[j][1] = k}}

\* the ids reachable from the set S along the enhanced relations, head to dependent
RECURSIVE GraphClosure(_)
GraphClosure(S) ==
  LET T == S \cup UNION {NamedAsHead(k) : k \in S}
  IN IF T = S THEN S ELSE GraphClosure(T)

\* k lies on a cycle of length two or more
GraphOnCycle(k) == k \in GraphClosure(NamedAsHead(k) \ {k})

\* some row carries an enhanced relation or is an empty node
GraphPresent ==
  \E i \in 1..Len(GraphRows) : is_empty_node(GraphRows[i]) \/ GraphRows[i].deps # << >>

\* what build_egraph does once get_graph_projection has returned the set P
ConnectivityJudged(P) ==
  IF GraphIds \ P # {}
    THEN /\ Emitted(probe.out.diags, "unconnected-egraph") = 1
         /\ Len(probe.out.diags) = 1
         /\ probe.out.listed = sorted_ids(GraphIds \ P)
         /\ probe.out.egraph.none
    ELSE /\ probe.out.diags = << >>
         /\ ~probe.out.egraph.none

\* C24: for every enhanced graph, also one with a cycle of length two or more
\* that is reachable from "0", get_graph_projection returns, and returns
\* exactly the set of the ids reachable from "0"; build_egraph then emits one
\* 'unconnected-egraph' that lists all unreached ids if some node id is not in
\* that set, and returns the graph otherwise.
GraphProjectionTerminatesExact ==
  (probe.ran /\ GraphPresent) =>
    /\ probe.out.exc = ""
    /\ ConnectivityJudged(GraphClosure({Zero}))

\* the same where no id reachable from "0" lies on a cycle; where one does,
\* the descent does not end and build_egraph is left by RecursionError
GraphProjectionExactWithoutReachableCycle ==
  (probe.ran /\ GraphPresent) =>
    IF \E k \in GraphClosure({Zero}) : GraphOnCycle(k)
      THEN probe.out.exc = "RecursionError in get_graph_projection"
      ELSE /\ probe.out.exc = ""
           /\ ConnectivityJudged(GraphClosure({Zero}))

\* graphs without a reachable cycle: two nodes that are not reached, and a
\* node with two heads in a graph that is returned
UnreachedListed ==
  /\ probe.ran /\ probe.out.listed = << One, Two >>

TwoHeadsGraphReturned ==
  /\ probe.ran /\ ~probe.out.egraph.none
  /\ \E i \in 1..Len(GraphRows) : Len(GraphRows[i].deps) = 2

\* build_egraph returned no graph, emitted nothing and raised nothing
GraphAbsent ==
  /\ probe.out.exc = ""
  /\ probe.out.egraph.none
  /\ probe.out.diags = << >>

\* C25: for a sentence whose word and empty-node rows all have 10 columns and
\* a DEPS that parses, build_egraph returns no graph and emits no diagnostic
\* if and only if none of these rows has an entry in DEPS and none is an empty
\* node.  (The rows meant are those build_egraph looks at: it passes over the
\* multiword ranges.)
GraphAbsentIffNothingEnhanced ==
  probe.ran =>
    (GraphAbsent <=> \A i \in 1..Len(GraphRows) :
                       ~is_empty_node(GraphRows[i]) /\ GraphRows[i].deps = << >>)

\* two words without enhanced relations: no graph, nothing emitted
Witness_C25 ==
  /\ probe.ran
  /\ Len(GraphRows) >= 2 /\ ~GraphPresent
  /\ GraphAbsent

\* an empty node without enhanced relations makes the graph present: it is
\* reported as unconnected
EmptyNodeMakesGraph ==
  /\ probe.ran
  /\ \A i \in 1..Len(GraphRows) : GraphRows[i].deps = << >>
  /\ \E i \in 1..Len(GraphRows) : is_empty_node(GraphRows[i])
  /\ Emitted(probe.out.diags, "unconnected-egraph") = 1

----------------------------------------------------------------------------
(* get_gap and validate_projective_punctuation on the trees build_tree
   returns: `probe` holds a block of up to MaxPunctRows words 1, 2, ... with
   HEADs 0..MaxPunctRows, each attached as 'punct' or as 'dep'. *)

MaxPunctRows == 4

PunctHeads == { str(h) : h \in 0..MaxPunctRows }

InitPunct ==
  /\ args = [ProbeArgs EXCEPT !.level = 3]
  /\ Started
  /\ probe = [name |-> "punct", tree |-> << >>, ran |-> FALSE, out |-> << >>]

AppendPunctRow ==
  \E head \in PunctHeads, deprel \in {"punct", "dep"} :
    /\ ~probe.ran
    /\ Len(probe.tree) < MaxPunctRows
    /\ probe' = [probe EXCEPT
                   !.tree = Append(@, Cols(str(Len(probe.tree) + 1), COLCOUNT, "PUNCT", head,
                                           deprel, << >>))]
    /\ Untouched

\* build_tree(sentence) and, on the tree it returns, get_gap and
\* validate_projective_punctuation for every word
RunPunctuationTest ==
  /\ ~probe.ran
  /\ \E built \in {build_tree(probe.tree, 1, args)} :
       probe' = [probe EXCEPT
         !.ran = TRUE,
         !.out = IF built.exc # "" \/ built.tree.none
                   THEN [tree |-> FALSE, gap |-> << >>, punct |-> << >>]
                   ELSE [tree |-> TRUE,
                         gap |-> [n \in 1..Len(probe.tree) |-> get_gap(n, built.tree)],
                         punct |-> [n \in 1..Len(probe.tree) |->
                                      validate_projective_punctuation(n, built.tree)]]]
  /\ Untouched

NextPunct == AppendPunctRow \/ RunPunctuationTest

SpecPunct == InitPunct /\ [][NextPunct]_vars

\* word w is p or hangs under p, along at most k HEADs
RECURSIVE Under(_, _, _)
Under(w, p, k) ==
  IF w = p THEN TRUE
  ELSE IF w = 0 \/ k = 0 THEN FALSE
  ELSE Under(HeadOf(w), p, k - 1)

\* the words strictly between a and b, whichever is larger
Between(a, b) == {x \in 1..Len(Words) : (a < x /\ x < b) \/ (b < x /\ x < a)}

\* the words strictly between word n and its head that are not in the
\* projection of the head
GapOf(n) == {x \in Between(n, HeadOf(n)) : ~Under(x, HeadOf(n), Len(Words))}

\* the same without the word next to the larger of n and its head
InnerGapOf(n) ==
  {x \in GapOf(n) : x + 1 # n /\ x + 1 # HeadOf(n)}

PunctWords == {n \in 1..Len(Words) : Words[n].deprel = "punct"}

\* C26: for every word n of a valid tree, get_gap returns exactly the words
\* strictly between n and its head that are not in the projection of the head,
\* and validate_projective_punctuation emits 'punct-is-nonproj' for n if and
\* only if n is attached as 'punct' and that set is not empty.
PunctGapReported ==
  (probe.ran /\ HeadsFormTree) =>
    /\ probe.out.tree
    /\ \A n \in 1..Len(Words) :
         /\ probe.out.gap[n].exc = "" /\ probe.out.punct[n].exc = ""
         /\ probe.out.gap[n].set = GapOf(n)
         /\ Emitted(probe.out.punct[n].diags, "punct-is-nonproj")
              = IF n \in PunctWords /\ GapOf(n) # {} THEN 1 ELSE 0

\* what the code computes: the word next to the larger of n and its head is
\* never part of the gap
PunctInnerGapReported ==
  (probe.ran /\ HeadsFormTree) =>
    /\ probe.out.tree
    /\ \A n \in 1..Len(Words) :
         /\ probe.out.gap[n].exc = "" /\ probe.out.punct[n].exc = ""
         /\ probe.out.gap[n].set = InnerGapOf(n)
         /\ Emitted(probe.out.punct[n].diags, "punct-is-nonproj")
              = IF n \in PunctWords /\ InnerGapOf(n) # {} THEN 1 ELSE 0

\* a punct word 1 with head 4 across word 2 that hangs under the root: reported
PunctAcrossTwoReported ==
  /\ probe.ran /\ HeadsFormTree /\ Len(Words) = 4
  /\ 1 \in PunctWords /\ HeadOf(1) = 4 /\ 2 \in GapOf(1)
  /\ Emitted(probe.out.punct[1].diags, "punct-is-nonproj") = 1

----------------------------------------------------------------------------
(* validate_misc run on its own: `probe` holds a block of up to MaxMiscRows
   rows whose MISC columns are built item by item, MaxMiscItems items in the
   whole block.  An item is the list ma.split("=", 1) gives: a key and a
   value, or the item itself when it holds no "=". *)

MaxMiscRows == 2
MaxMiscItems == 4

MiscItems ==
  { << "SpaceAfter", "No" >>, << "Gloss", "x" >>, << "Foo", "1" >>, << "Bar" >> }

\* the next row of the block: the next word, the range before the first row,
\* the empty node after it
MiscRowIds(tree) ==
  { str(Len(WordIds(tree)) + 1) } \cup (IF tree = << >> THEN { IdMwt } ELSE { IdEmpty })

InitMisc ==
  /\ args = ProbeArgs
  /\ Started
  /\ probe = [name |-> "misc", tree |-> << >>, items |-> 0, ran |-> FALSE, out |-> << >>]

AppendMiscRow ==
  \E id \in MiscRowIds(probe.tree) :
    /\ ~probe.ran
    /\ Len(probe.tree) < MaxMiscRows
    /\ probe' = [probe EXCEPT
                   !.tree = Append(@, Cols(id, COLCOUNT, "NOUN", Zero, "root", << >>))]
    /\ Untouched

AppendMiscItem ==
  \E item \in MiscItems :
    /\ ~probe.ran
    /\ probe.tree # << >>
    /\ probe.items < MaxMiscItems
    /\ probe' = [probe EXCEPT !.tree[Len(probe.tree)].misc = Append(@, item),
                              !.items = @ + 1]
    /\ Untouched

\* validate_misc(sentence), the sentence starting at line 1
RunValidateMisc ==
  /\ ~probe.ran
  /\ probe' = [probe EXCEPT !.ran = TRUE, !.out = validate_misc(probe.tree, 1)]
  /\ Untouched

NextMisc == AppendMiscRow \/ AppendMiscItem \/ RunValidateMisc

SpecMisc == InitMisc /\ [][NextMisc]_vars

\* the rows validate_misc looks at
MiscNodeRows ==
  {i \in 1..Len(probe.tree) : is_word(probe.tree[i]) \/ is_empty_node(probe.tree[i])}

\* the selected keys that occur more than once in row i; the key of an item
\* is what stands before its first "="
RepeatedKeys(i) ==
  {k \in MiscKeys :
     Cardinality({j \in 1..Len(probe.tree[i].misc) : probe.tree[i].misc[j][1] = k}) > 1}

\* the 'repeated-misc' diagnostics emitted for the row on line i
RepeatedMiscAt(i) ==
  Cardinality({d \in 1..Len(probe.out.diags) :
                 /\ probe.out.diags[d].testid = "repeated-misc"
                 /\ probe.out.diags[d].nodelineno = i})

\* row i has a MISC item that is not of the form attribute=value
PlainItemIn(i) == \E j \in 1..Len(probe.tree[i].misc) : Len(probe.tree[i].misc[j]) = 1

\* C27: for every word or empty-node row and any MISC value, also one with
\* items that are not of the form attribute=value, validate_misc raises no
\* error and emits exactly one 'repeated-misc' for each of the selected keys
\* that occurs more than once in the row, and nothing else.
RepeatedMiscReported ==
  probe.ran =>
    /\ probe.out.exc = ""
    /\ \A i \in MiscNodeRows : RepeatedMiscAt(i) = Cardinality(RepeatedKeys(i))
    /\ \A d \in 1..Len(probe.out.diags) :
         /\ probe.out.diags[d].testid = "repeated-misc"
         /\ probe.out.diags[d].nodelineno \in MiscNodeRows

\* what the code does: the first word or empty-node row with an item that is
\* not of the form attribute=value ends the function with ValueError; the rows
\* before it are reported as stated, that row and the rows after it are not
RepeatedMiscReportedUntilPlainItem ==
  probe.ran =>
    LET plain == {i \in MiscNodeRows : PlainItemIn(i)}
        tested == {i \in MiscNodeRows : \A j \in plain : i < j}
    IN /\ probe.out.exc = IF plain = {} THEN "" ELSE "ValueError in validate_misc"
       /\ \A i \in tested : RepeatedMiscAt(i) = Cardinality(RepeatedKeys(i))
       /\ \A d \in 1..Len(probe.out.diags) :
            /\ probe.out.diags[d].testid = "repeated-misc"
            /\ probe.out.diags[d].nodelineno \in tested

\* a row in which two of the selected keys are repeated gets two diagnostics
TwoKeysRepeated ==
  /\ probe.ran
  /\ \E i \in MiscNodeRows : Cardinality(RepeatedKeys(i)) = 2 /\ RepeatedMiscAt(i) = 2

----------------------------------------------------------------------------
(* Exceptions that leave validate(). *)

\* the warn() calls of the except clause of __main__
CaughtCalls == {i \in 1..Len(log) : log[i].d.by = "__main__"}

ExceptionRecordedOnce ==
  /\ exc = "" => CaughtCalls = {}
  /\ exc # "" =>
       /\ pc \in {"summary", "exit"}
       /\ CaughtCalls = {Len(log)}
       /\ log[Len(log)].d.testclass = "Format"
       /\ "Format" \in DOMAIN error_counter
       /\ pc = "exit" => exit_status = 1

\* after the exception nothing is read, yielded or validated, no stream is
\* opened and no warn() call is made: the run only exits
NothingAfterException ==
  exc # "" =>
    /\ pc' = "exit"
    /\ UNCHANGED << validated, yielded, consumed, cols_calls, fidx, nread, log, exc,
                    error_counter, tree_counter >>

\* C28: an exception that escapes the validation of a stream is caught at the
\* top of the driver: exactly one 'Exception caught!' diagnostic of category
\* Format is recorded for the run, the run exits with status 1, and no
\* sentence or stream after the failing point is validated.
ExceptionEndsRun ==
  /\ [](ExceptionRecordedOnce)
  /\ [][NothingAfterException]_vars

\* a run of two streams that ended with an exception in the first one, after a
\* sentence had been validated
Witness_C28 ==
  /\ pc = "exit" /\ exc # "" /\ exit_status = 1
  /\ args.ninput = 2 /\ fidx = 1
  /\ Len(validated) >= 1
  /\ \A k \in 1..Len(validated) : validated[k].stream = 1

----------------------------------------------------------------------------
(* Runs at every level 1..5 over rows whose relations are universal, a
   language-specific subtype of a universal relation, or unknown, and a row
   with an unapproved feature value and an auxiliary lemma. *)

MaxLevelLines == 3

LevelRows ==
  { Cols(One, COLCOUNT, "NOUN", Zero, "root", << >>),
    Cols(Two, COLCOUNT, "NOUN", One, "acl:relcl", << << One, "acl:relcl" >> >>),
    Cols(Two, COLCOUNT, "NOUN", One, "foo", << << One, "foo" >> >>),
    [Cols(Two, COLCOUNT, "AUX", One, "aux", << >>)
       EXCEPT !.lemma = "be",
              !.feats = << << "C", "a", "s", "e", "2", "=", "G", "e", "n" >> >>] }

LevelRun ==
  [name |-> "levels", budget |-> MaxLevelLines, rows |-> LevelRows,
   comments |-> {[sid |-> "", prefix |-> FALSE]}]

AllLevels == 1..5

InitLevels ==
  /\ args \in [level : AllLevels, quiet : {FALSE}, max_err : {0}, single_root : {TRUE},
               check_tree_text : {FALSE}, lang : {"ud"}, ninput : 1..MaxStreams]
  /\ Started
  /\ probe = LevelRun

SpecLevels == InitLevels /\ [][Next]_vars

\* the label the membership tests look at: its universal part below level 4
JudgedLabel(d) == IF args.level < 4 THEN lspec2ud(d) ELSE d

\* the warn() calls of validate_deprels with this rule id about line i of the
\* current stream
DeprelCalls(i, testid) ==
  Cardinality({k \in 1..Len(log) :
                 /\ log[k].stream = fidx /\ log[k].at = i
                 /\ log[k].d.by = "validate_deprels" /\ log[k].d.testid = testid})

\* the word rows of the current stream that validate_deprels has judged
JudgedRows ==
  {i \in 1..Len(consumed) :
     /\ args.level > 1
     /\ consumed[i].kind = "row" /\ is_word(consumed[i].cols)
     /\ consumed[i].cols.n = COLCOUNT}

\* C29: every diagnostic of a run at level L carries a level that is at most
\* L; the tests of DEPREL and DEPS against the lists of relations report at
\* level 2, on the universal part of the label, when L < 4, and at level 4, on
\* the full label, when L >= 4.
LevelsRespected ==
  /\ \A k \in 1..Len(log) : log[k].d.testlevel <= args.level
  /\ \A k \in 1..Len(log) :
       log[k].d.by = "validate_deprels"
         => log[k].d.testlevel = IF args.level < 4 THEN 2 ELSE 4
  /\ \A i \in JudgedRows :
       /\ DeprelCalls(i, "unknown-deprel")
            = IF JudgedLabel(consumed[i].cols.deprel) \in DeprelTags THEN 0 ELSE 1
       /\ DeprelCalls(i, "unknown-edeprel")
            = Cardinality({j \in 1..Len(consumed[i].cols.deps) :
                             JudgedLabel(consumed[i].cols.deps[j][2]) \notin DepsTags})

\* a run at level 4 or 5 that reported a subtype relation in DEPREL and in
\* DEPS at level 4
Witness_C29 ==
  /\ args.level >= 4
  /\ \E i \in JudgedRows :
       /\ consumed[i].cols.deprel = "acl:relcl"
       /\ DeprelCalls(i, "unknown-deprel") = 1
       /\ DeprelCalls(i, "unknown-edeprel") = 1
  /\ \E k \in 1..Len(log) : log[k].d.by = "validate_deprels" /\ log[k].d.testlevel = 4

\* a run at level 3 that read a subtype relation and reported nothing about it
SubtypeAcceptedBelowLevel4 ==
  /\ args.level = 3
  /\ \E i \in JudgedRows :
       /\ consumed[i].cols.deprel = "acl:relcl"
       /\ DeprelCalls(i, "unknown-deprel") = 0

\* diagnostics of the levels 3, 4 and 5 in one run
HigherLevelsReported ==
  \A l \in 3..5 : \E k \in 1..Len(log) : log[k].d.testlevel = l

----------------------------------------------------------------------------
(* Runs over rows whose defects are reported with the line of the node: a
   word that is its own HEAD (build_tree), a word that is its own enhanced
   head (validate_deps) and a word with SpaceAfter twice in MISC
   (validate_misc), with comment lines and invalid lines between the rows. *)

MaxNodeLines == 4

NodeLineRows ==
  { Cols(One, COLCOUNT, "NOUN", Zero, "root", << >>),
    Cols(Two, COLCOUNT, "NOUN", Two, "dep", << >>),
    Cols(Two, COLCOUNT, "NOUN", One, "dep", << << Two, "dep" >> >>),
    [Cols(Two, COLCOUNT, "NOUN", One, "dep", << >>)
       EXCEPT !.misc = << << "SpaceAfter", "No" >>, << "SpaceAfter", "No" >> >>] }

NodeLineRun ==
  [name |-> "nodelines", budget |-> MaxNodeLines, rows |-> NodeLineRows,
   comments |-> {[sid |-> "", prefix |-> FALSE]}]

InitNodeLines ==
  /\ args \in [level : {2}, quiet : {FALSE}, max_err : {0}, single_root : {TRUE},
               check_tree_text : {FALSE}, lang : {"ud"}, ninput : 1..MaxStreams]
  /\ Started
  /\ probe = NodeLineRun

SpecNodeLines == InitNodeLines /\ [][Next]_vars

\* the defect a diagnostic of build_tree, validate_deps or validate_misc names
HasDefect(cols, testid) ==
  CASE testid = "head-self-loop" -> cols.head = cols.id
    [] testid = "deps-self-loop" -> \E j \in 1..Len(cols.deps) : cols.deps[j][1] = cols.id
    [] testid = "repeated-misc" -> misc_duplicates(cols.misc) # {}
    [] OTHER -> FALSE

\* the warn() calls about the current stream that carry the line of a node
NodeLineCalls ==
  {k \in 1..Len(log) :
     /\ log[k].stream = fidx
     /\ log[k].d.by \in {"build_tree", "validate_deps", "validate_misc"}
     /\ log[k].d.testid \in {"head-self-loop", "deps-self-loop", "repeated-misc"}}

\* the input lines of the token rows of the block that was validated when
\* line `at` had been read: the rows behind the last blank line before `at`
BlockRowLines(at) ==
  {i \in 1..at :
     /\ consumed[i].kind = "row"
     /\ \A j \in i..(at - 1) : consumed[j].kind \notin {"empty", "whitespace"}}

\* the position of the row of line i in its block
PositionInBlock(i, at) == Cardinality({j \in BlockRowLines(at) : j <= i})

\* the input line of the first row of the block
BlockStart(at) == CHOOSE i \in BlockRowLines(at) : \A j \in BlockRowLines(at) : i <= j

\* C30: the line number attached to a node is the input line on which the row
\* of the node was read, also when a misplaced comment line or an invalid line
\* was read between two token rows of the sentence.
NodeLineIsInputLine ==
  \A k \in NodeLineCalls :
    \E i \in BlockRowLines(log[k].at) :
      /\ HasDefect(consumed[i].cols, log[k].d.testid)
      /\ log[k].d.nodelineno = i

\* the line number attached to a node is the line of the first row of the
\* block plus the number of rows before the node in the block
NodeLineIsPositionInBlock ==
  \A k \in NodeLineCalls :
    \E i \in BlockRowLines(log[k].at) :
      /\ HasDefect(consumed[i].cols, log[k].d.testid)
      /\ log[k].d.nodelineno = BlockStart(log[k].at) + PositionInBlock(i, log[k].at) - 1

\* a node of a block without lines between its rows, reported with its line
NodeLineWithinPlainBlock ==
  \E k \in NodeLineCalls :
    /\ log[k].d.nodelineno > 1
    /\ consumed[log[k].d.nodelineno].kind = "row"
    /\ HasDefect(consumed[log[k].d.nodelineno].cols, log[k].d.testid)

\* a node reported with the line of a misplaced comment or of an invalid line
NodeLineOfOtherLine ==
  \E k \in NodeLineCalls : consumed[log[k].d.nodelineno].kind \in {"comment", "invalid"}

====
